---------------------------- MODULE Spec2Model ----------------------------
(***************************************************************************)
(* Model of the document question-answering pipelines (chat, question      *)
(* router, factual and financial answer pipelines) and of the table        *)
(* normalizer of the ingestion side.                                       *)
(*                                                                         *)
(* Texts are sequences of lexical items (strings); substring tests of the  *)
(* code are tests on the items.  An embedding is a sequence of integers;   *)
(* a cosine similarity dot / (sqrt(mag1) * sqrt(mag2)) is kept as the      *)
(* triple (dot, mag1, mag2) and compared exactly through sgn(dot)*dot^2    *)
(* over mag1*mag2, which orders the same way as the quotient itself.       *)
(***************************************************************************)
EXTENDS Integers, Sequences, FiniteSets, TLC

NULL == "null"          \* JavaScript null / undefined, SQL NULL (a name)
NoEmbedding == <<>>     \* SQL NULL in an embedding column
NoDocumentIds == <<>>   \* documentIds undefined or []: the pipelines test
                        \* documentIds && documentIds.length > 0

-----------------------------------------------------------------------------
(* Bounds of the model *)

MaxChunks == 3          \* stored text chunks
MaxRows == 3            \* stored table rows
MaxGridRows == 3        \* rows of a raw table grid
MaxRowLen == 3          \* cells of one grid row
MaxCellLen == 4         \* characters of an enumerated cell string
MaxPages == 2           \* pages handed to chunkText
MaxChunkCandidates == 6 \* stored chunks in the ranking step
MaxRowCandidates == 11  \* stored rows in the ranking step
MaxRewind == 120        \* how far below 0 startPos is followed

-----------------------------------------------------------------------------
(* Program constants *)

FetchLimit == 100       \* .limit(100) of both candidate queries
TopChunks == 5          \* .slice(0, 5) of the ranked chunks
TopRows == 10           \* .slice(0, 10) of the ranked rows
EvidenceRows == 5       \* filteredRows.slice(0, 5)
CitationCount == 3      \* slice(0, 3) of both citation lists
ContextLines == 2       \* context_*_lines.slice(0, 2) in the prompt

NOT_AVAILABLE == "Not available in the provided documents."
ERROR_ANSWER == "An error occurred while processing your question."

-----------------------------------------------------------------------------
(* Generic helpers *)

Min(a, b) == IF a < b THEN a ELSE b

\* Array.prototype.slice(0, n)
Slice(s, n) == SubSeq(s, 1, Min(n, Len(s)))

Range(s) == {s[i] : i \in 1..Len(s)}

SeqsUpTo(S, n) == UNION {[1..k -> S] : k \in 0..n}

-----------------------------------------------------------------------------
(* Cosine similarity, as both pipelines compute it in process *)

\* the loop over questionEmbedding.length: a sum of products
RECURSIVE DotUpTo(_, _, _)
DotUpTo(a, b, n) ==
  IF n = 0 THEN 0 ELSE DotUpTo(a, b, n - 1) + a[n] * b[n]

\* dotProduct / (Math.sqrt(mag1) * Math.sqrt(mag2)), kept unevaluated
CosineSimilarity(q, e) ==
  [dot |-> DotUpTo(q, e, Len(q)),
   mag1 |-> DotUpTo(q, q, Len(q)),
   mag2 |-> DotUpTo(e, e, Len(q))]

\* 0 / 0 is NaN: a zero-magnitude vector on either side
IsNaN(sim) == sim.mag1 * sim.mag2 = 0

\* (similarity || 0): NaN and 0 both give 0.  The value is the pair
\* <<n, d>> standing for sgn(dot) * dot^2 / (mag1 * mag2), d > 0.
SimOrZero(sim) ==
  IF IsNaN(sim) THEN <<0, 1>>
  ELSE <<(IF sim.dot < 0 THEN -1 ELSE 1) * sim.dot * sim.dot, sim.mag1 * sim.mag2>>

\* v > w for two such values
Greater(v, w) == v[1] * w[2] > w[1] * v[2]

\* value > num / den for a positive threshold num / den
Above(v, num, den) == v[1] * den * den > num * num * v[2]

\* an insertion that puts an element before the elements of equal key
RECURSIVE InsertDescBeforeEqual(_, _)
InsertDescBeforeEqual(sorted, x) ==
  IF sorted = <<>> THEN <<x>>
  ELSE IF ~Greater(SimOrZero(Head(sorted).similarity), SimOrZero(x.similarity))
       THEN <<x>> \o sorted
       ELSE <<Head(sorted)>> \o InsertDescBeforeEqual(Tail(sorted), x)

\* .sort((a, b) => (b?.similarity || 0) - (a?.similarity || 0)): a stable
\* sort by descending key; an element goes after every element whose key
\* is not smaller than its own.
RECURSIVE InsertDesc(_, _)
InsertDesc(sorted, x) ==
  IF sorted = <<>> THEN <<x>>
  ELSE IF Greater(SimOrZero(x.similarity), SimOrZero(Head(sorted).similarity))
       THEN <<x>> \o sorted
       ELSE <<Head(sorted)>> \o InsertDesc(Tail(sorted), x)

RECURSIVE SortBySimilarity(_)
SortBySimilarity(s) ==
  IF s = <<>> THEN <<>>
  ELSE InsertDesc(SortBySimilarity(SubSeq(s, 1, Len(s) - 1)), s[Len(s)])

-----------------------------------------------------------------------------
(* Texts: sequences of lexical items *)

\* String.prototype.toLowerCase on one item
LowerItem(w) ==
  CASE w = "Factual" -> "factual"
    [] w = "FINANCIAL" -> "financial"
    [] w = "Not available in the provided documents."
         -> "not available in the provided documents."
    [] w = "Coverage" -> "coverage"
    [] w = "ICR" -> "icr"
    [] w = "DPU" -> "dpu"
    [] w = "Balance Sheet" -> "balance sheet"
    [] OTHER -> w

ToLowerCase(text) == [i \in 1..Len(text) |-> LowerItem(text[i])]

\* the lower-case items that hold a keyword as a proper substring
Holds ==
  {<<"not available in the provided documents.", "not available">>,
   <<"non-financial", "financial">>,
   <<"corporation", "ratio">>,
   <<"expenses", "expense">>,
   <<"debt service coverage ratio", "debt service">>,
   <<"debt service coverage ratio", "coverage">>,
   <<"debt service coverage ratio", "ratio">>}

\* String.prototype.includes / RegExp.test of a literal, on items
Includes(text, kw) ==
  \E i \in 1..Len(text) : text[i] = kw \/ <<text[i], kw>> \in Holds

IsSpace(w) == w = "\n"

\* String.prototype.trim
RECURSIVE TrimStart(_)
TrimStart(text) ==
  IF text # <<>> /\ IsSpace(Head(text)) THEN TrimStart(Tail(text)) ELSE text

RECURSIVE TrimEnd(_)
TrimEnd(text) ==
  IF text # <<>> /\ IsSpace(text[Len(text)])
  THEN TrimEnd(SubSeq(text, 1, Len(text) - 1)) ELSE text

Trim(text) == TrimEnd(TrimStart(text))

\* index of the first item of text at or after from that is in stops,
\* Len(text) + 1 when there is none
RECURSIVE FirstIn(_, _, _)
FirstIn(text, from, stops) ==
  IF from > Len(text) THEN Len(text) + 1
  ELSE IF text[from] \in stops THEN from
  ELSE FirstIn(text, from + 1, stops)

\* whether /<marker>\s*([\s\S]+?)(?=<stops>|$)/ matches: the marker
\* occurs and at least one character follows it
Matches(text, marker) == FirstIn(text, 1, {marker}) < Len(text)

\* the capture group of that match.  \s* is greedy, the group takes at
\* least one character and then stops before the first stop marker.
Capture(text, marker, stops) ==
  LET i == FirstIn(text, 1, {marker})
      rest == SubSeq(text, i + 1, Len(text))
      body == IF TrimStart(rest) = <<>> THEN rest ELSE TrimStart(rest)
      stop == FirstIn(body, 2, stops)
  IN SubSeq(body, 1, stop - 1)

\* parseFactualResponse
parseFactualResponse(response) ==
  [answer |->
     IF Matches(response, "Answer:")
     THEN Trim(Capture(response, "Answer:", {"Quoted Evidence:", "Citation:"}))
     ELSE Trim(SubSeq(response, 1, FirstIn(response, 1, {"\n"}) - 1)),
   quotedEvidence |->
     IF Matches(response, "Quoted Evidence:")
     THEN Trim(Capture(response, "Quoted Evidence:", {"Citation:"}))
     ELSE <<>>]

-----------------------------------------------------------------------------
(* The document store and the external services *)

DocIds == {1, 2}

\* documents.display_name
DisplayName(d) == IF d = 1 THEN "Q3 Results" ELSE "Board Outcome"

TableIds == {"doc1_p52_t0", "doc2_p7_t0"}

\* the rows of the tables table: one named table with context lines, one
\* unnamed table without
StoredTables ==
  [t \in TableIds |->
     IF t = "doc1_p52_t0"
     THEN [table_id |-> t, document_id |-> 1, page |-> 52, table_name |-> "RATIOS",
           context_above_lines |-> <<"Financial ratios", "Rs. million", "Unaudited">>,
           context_below_lines |-> <<"Notes">>]
     ELSE [table_id |-> t, document_id |-> 2, page |-> 7, table_name |-> NULL,
           context_above_lines |-> <<>>,
           context_below_lines |-> <<>>]]

\* embedding vectors of the model: the service may return any of them
QueryEmbeddings == {<<1, 0, 0>>, <<0, 1, 0>>}
StoredEmbeddings == {NoEmbedding, <<1, 0, 0>>, <<4, 3, 0>>}

\* text_chunks rows other than id: id is the position (SERIAL)
ChunkChoices == [document_id : DocIds, embedding : StoredEmbeddings]
RowChoices == [table_id : TableIds, embedding : StoredEmbeddings]

MakeChunks(c) ==
  [i \in 1..Len(c) |->
     [id |-> i, document_id |-> c[i].document_id, page |-> 10 + i,
      chunk_index |-> i - 1, text |-> <<"chunk", i>>, embedding |-> c[i].embedding]]

MakeRows(r) ==
  [i \in 1..Len(r) |->
     [id |-> i, table_id |-> r[i].table_id, row_index |-> i - 1,
      cells |-> <<"label", i>>, raw_text |-> <<"row", i>>,
      embedding |-> r[i].embedding]]

\* what an awaited call can do: resolve with a value or reject
Resolved(S) == {[ok |-> TRUE, value |-> v] : v \in S}
Rejected == [ok |-> FALSE, value |-> <<>>]
\* no such call made, or its outcome out of scope
NoCall == [ok |-> FALSE, value |-> <<"no call">>]

\* a store query resolves with data, resolves with {data: null, error},
\* or rejects
StoreOutcomes == {"data", "error", "reject"}

\* replies of the classification call and of the answer generation call
ClassifierReplies ==
  {<<"factual">>, <<"financial">>, <<"Factual">>,
   <<"factual", "or", "financial">>, <<"unclear">>}

REFUSAL == <<NOT_AVAILABLE>>

GenerationReplies ==
  {REFUSAL,
   <<"Answer:", "M/s. Walker Chandiok", "\n", "Quoted Evidence:",
     "Statutory Auditors, M/s. Walker Chandiok", "\n", "Citation:", "Q3 Results, Page 12">>,
   <<"Debt service coverage ratio: 1.45 times">>,
   <<"Answer:", "1.45 times", "Quoted Evidence:", NOT_AVAILABLE>>,
   <<>>}

\* questions, as the lexical items they hold
Questions ==
  {<<"who", "is", "the", "auditor">>,
   <<"debt service", "Coverage", "ratio">>,
   <<"revenue">>}

DocumentIdFilters == {NoDocumentIds, <<2>>}

-----------------------------------------------------------------------------
(* Question router and table-type keywords *)

\* the chain with the test for "factual" first
RouteOfFactualFirst(reply) ==
  LET classification == ToLowerCase(Trim(reply)) IN
  IF Includes(classification, "factual") THEN "factual"
  ELSE IF Includes(classification, "financial") THEN "financial"
  ELSE "financial"

\* the if / else-if chain of classifyQuestion on the trimmed, lower-cased reply
RouteOf(reply) ==
  LET classification == ToLowerCase(Trim(reply)) IN
  IF Includes(classification, "financial") THEN "financial"
  ELSE IF Includes(classification, "factual") THEN "factual"
  ELSE "financial"

\* classifyQuestion: the catch block returns "financial"
classifyQuestion(outcome) ==
  IF outcome.ok THEN RouteOf(outcome.value) ELSE "financial"

\* the five regular expressions of identifyTableTypes, in source order
TableTypeRules ==
  <<[type |-> "RATIOS", keywords |-> {"ratio", "coverage", "debt service", "icr"}],
    [type |-> "NDCF", keywords |-> {"ndcf", "net distributable cash flow"}],
    [type |-> "DISTRIBUTION", keywords |-> {"distribution", "per unit", "dpu"}],
    [type |-> "P&L",
     keywords |-> {"profit", "loss", "revenue", "income", "expense", "p&l"}],
    [type |-> "BALANCE_SHEET",
     keywords |-> {"balance sheet", "assets", "liabilities", "equity"}]>>

\* the rules as an else-if chain: the first type that matches only
identifyTableTypesFirstMatch(q) ==
  LET lower == ToLowerCase(q)
      hit(rule) == \E kw \in rule.keywords : Includes(lower, kw)
      rules == SelectSeq(TableTypeRules, hit)
  IN IF rules = <<>> THEN <<>> ELSE <<rules[1].type>>

identifyTableTypes(q) ==
  LET lower == ToLowerCase(q)
      hit(rule) == \E kw \in rule.keywords : Includes(lower, kw)
      rules == SelectSeq(TableTypeRules, hit)
  IN [i \in 1..Len(rules) |-> rules[i].type]

-----------------------------------------------------------------------------
(* Pure parts of the two answer pipelines *)

\* chunk.embedding ? JSON.parse(chunk.embedding) : null, tested for null:
\* a stored embedding is kept here as the vector its text denotes
HasEmbedding(rec) == rec.embedding # NoEmbedding

\* .map(similarity or null).filter(non-null).sort(descending).slice(0, k)
RankBySimilarity(candidates, q, k) ==
  LET usable == SelectSeq(candidates, HasEmbedding)
      scored == [i \in 1..Len(usable) |->
                   [rec |-> usable[i],
                    similarity |-> CosineSimilarity(q, usable[i].embedding)]]
  IN Slice(SortBySimilarity(scored), k)

\* topSimilarity = ranked[0]?.similarity || 0
TopSimilarity(ranked) ==
  IF ranked = <<>> THEN <<0, 1>> ELSE SimOrZero(ranked[1].similarity)

\* topSimilarity > 0.8 ? "high" : topSimilarity > 0.6 ? "medium" : "low"
FactualConfidence(top) ==
  IF Above(top, 4, 5) THEN "high" ELSE IF Above(top, 3, 5) THEN "medium" ELSE "low"

\* the financial tiers on the factual thresholds 0.8 and 0.6
FinancialConfidenceFactualThresholds(top) ==
  IF Above(top, 4, 5) THEN "high" ELSE IF Above(top, 3, 5) THEN "medium" ELSE "low"

\* topSimilarity > 0.75 ? "high" : topSimilarity > 0.5 ? "medium" : "low"
FinancialConfidence(top) ==
  IF Above(top, 3, 4) THEN "high" ELSE IF Above(top, 1, 2) THEN "medium" ELSE "low"

\* the refusal test without .toLowerCase()
SaysNotAvailableCaseSensitive(text) == Includes(text, "not available")

\* the refusal tests: parsed.answer / llmResponse .toLowerCase().includes("not available")
SaysNotAvailable(text) == Includes(ToLowerCase(text), "not available")

\* the answers both pipelines return early or from their catch block
NotAvailableAnswer ==
  [answer |-> <<NOT_AVAILABLE>>, evidence |-> <<>>, citations |-> <<>>,
   confidence |-> "not_found"]

ErrorAnswer ==
  [answer |-> <<ERROR_ANSWER>>, evidence |-> <<>>, citations |-> <<>>,
   confidence |-> "not_found"]

\* chat: the unified response built from a pipeline's answer
ChatResponse(type, a) ==
  [questionType |-> type, answer |-> a.answer, citations |-> a.citations,
   evidence |-> a.evidence, confidence |-> a.confidence]

-----------------------------------------------------------------------------
(* State *)

VARIABLES
  documents,            \* store: rows of documents
  text_chunks,          \* store: rows of text_chunks, in query order
  tables,               \* store: rows of tables
  table_rows,           \* store: rows of table_rows, in query order
  pc,                   \* where the chat request in progress is suspended
  question,             \* chat(question, documentIds)
  documentIds,
  classification,       \* outcome of the classification call
  questionType,         \* what classifyQuestion returned
  questionEmbedding,
  ranked,               \* chunksWithSimilarity / rowsWithSimilarity
  tableMetadataMap,     \* table_id -> tables row, of the table lookup
  filteredRows,
  documentMap,          \* document id -> display_name, of the name lookup
  prompt,               \* evidence blocks handed to the generation call
  generationCalls,      \* answer generation calls made for this request
  generation,           \* outcome of the answer generation call
  faults,               \* calls of this request that failed
  response,             \* what chat returned
  rawTableGrid,         \* ingestion: grid handed to normalizeTableRows
  normalizedRows,       \* ingestion: what normalizeTableRows returned
  normalizerPc,         \* ingestion: "ready" before the call, "done" after
  chunkPages,           \* chunkText: its argument pages
  chunkOptions,         \* chunkText: its argument options
  chunkerPc,            \* chunkText: "ready", "loop", "returned"
  pageIdx,              \* chunkText: position of the for loop (from 1)
  startPos,             \* chunkText: startPos of the while loop
  chunks,               \* chunkText: the array chunks
  globalChunkIndex,     \* chunkText: globalChunkIndex
  ingestion_logs,       \* store: rows of ingestion_logs, in insertion order
  jobs,                 \* ingestDocument: the locals of each call in progress
  calls,                \* ingestDocument: calls started so far
  ingestFaults          \* ingestDocument: awaited calls that failed so far

storeVars == <<documents, text_chunks, tables, table_rows>>
normalizerVars == <<rawTableGrid, normalizedRows, normalizerPc>>
chunkerVars == <<chunkPages, chunkOptions, chunkerPc, pageIdx, startPos,
                 chunks, globalChunkIndex>>
jobVars == <<ingestion_logs, jobs, calls, ingestFaults>>
ingestVars == <<normalizerVars, chunkerVars, jobVars>>
localVars == <<classification, questionType, questionEmbedding, ranked,
               tableMetadataMap, filteredRows, documentMap, prompt,
               generationCalls, generation, faults>>
vars == <<documents, text_chunks, tables, table_rows, pc, question, documentIds,
          classification, questionType, questionEmbedding, ranked,
          tableMetadataMap, filteredRows, documentMap, prompt,
          generationCalls, generation, faults, response, rawTableGrid,
          normalizedRows, normalizerPc, chunkPages, chunkOptions, chunkerPc,
          pageIdx, startPos, chunks, globalChunkIndex, ingestion_logs, jobs,
          calls, ingestFaults>>

NoResponse ==
  [questionType |-> NULL, answer |-> <<>>, citations |-> <<>>,
   evidence |-> <<>>, confidence |-> NULL]

EmptyMap == [x \in {} |-> NULL]

\* a store of at most MaxChunks chunks, or of at most MaxRows table rows:
\* each pipeline reads one of the two tables only
InitStore ==
  /\ documents = {[id |-> d, display_name |-> DisplayName(d)] : d \in DocIds}
  /\ tables = {StoredTables[t] : t \in TableIds}
  /\ \/ /\ text_chunks \in {MakeChunks(c) : c \in SeqsUpTo(ChunkChoices, MaxChunks)}
        /\ table_rows = <<>>
     \/ /\ text_chunks = <<>>
        /\ table_rows \in {MakeRows(r) : r \in SeqsUpTo(RowChoices, MaxRows)}

\* no chat request yet
InitChat ==
  /\ pc = "idle"
  /\ question = <<>>
  /\ documentIds = NoDocumentIds
  /\ classification = NoCall
  /\ questionType = NULL
  /\ questionEmbedding = <<>>
  /\ ranked = <<>>
  /\ tableMetadataMap = EmptyMap
  /\ filteredRows = <<>>
  /\ documentMap = EmptyMap
  /\ prompt = <<>>
  /\ generationCalls = 0
  /\ generation = NoCall
  /\ faults = {}
  /\ response = NoResponse

\* no table being normalized
InitNoGrid ==
  /\ rawTableGrid = <<>>
  /\ normalizedRows = <<>>
  /\ normalizerPc = "done"

\* no text being chunked
InitNoPages ==
  /\ chunkPages = <<>>
  /\ chunkOptions = [chunkSize |-> 0, overlap |-> 0]
  /\ chunkerPc = "returned"
  /\ pageIdx = 1
  /\ startPos = 0
  /\ chunks = <<>>
  /\ globalChunkIndex = 0

\* no ingestDocument call yet
InitNoJobs ==
  /\ ingestion_logs = <<>>
  /\ jobs = <<>>
  /\ calls = 0
  /\ ingestFaults = 0

Init == InitStore /\ InitChat /\ InitNoGrid /\ InitNoPages /\ InitNoJobs

-----------------------------------------------------------------------------
(* chat and classifyQuestion *)

\* chat(question, documentIds) is called
ChatStart(q, ids) ==
  /\ pc \in {"idle", "done"}
  /\ pc' = "classify"
  /\ question' = q
  /\ documentIds' = ids
  /\ classification' = NoCall
  /\ questionType' = NULL
  /\ questionEmbedding' = <<>>
  /\ ranked' = <<>>
  /\ tableMetadataMap' = EmptyMap
  /\ filteredRows' = <<>>
  /\ documentMap' = EmptyMap
  /\ prompt' = <<>>
  /\ generationCalls' = 0
  /\ generation' = NoCall
  /\ faults' = {}
  /\ response' = NoResponse
  /\ UNCHANGED <<storeVars, ingestVars>>

\* the classification call settles and classifyQuestion returns
ClassifyQuestion ==
  /\ pc = "classify"
  /\ \E outcome \in Resolved(ClassifierReplies) \cup {Rejected} :
       /\ classification' = outcome
       /\ questionType' = classifyQuestion(outcome)
       /\ pc' = IF classifyQuestion(outcome) = "factual"
                THEN "factual:embedding" ELSE "financial:embedding"
  /\ UNCHANGED <<storeVars, ingestVars, generation, question, documentIds,
                 questionEmbedding, ranked, tableMetadataMap, filteredRows,
                 documentMap, prompt, generationCalls, faults, response>>

\* a pipeline returns answer a and chat wraps it
Return(a) ==
  /\ pc' = "done"
  /\ response' = ChatResponse(questionType, a)

\* a call of a pipeline failed and its catch block returns
Catch(call) ==
  /\ faults' = faults \cup {call}
  /\ Return(ErrorAnswer)

-----------------------------------------------------------------------------
(* answerFactualQuestion *)

\* generateEmbedding(question) settles
FactualEmbed ==
  /\ pc = "factual:embedding"
  /\ classification' = NoCall
  /\ \E outcome \in Resolved(QueryEmbeddings) \cup {Rejected} :
       IF outcome.ok
       THEN /\ questionEmbedding' = outcome.value
            /\ pc' = "factual:chunks"
            /\ UNCHANGED <<faults, response>>
       ELSE /\ Catch("embedding")
            /\ UNCHANGED questionEmbedding
  /\ UNCHANGED <<storeVars, ingestVars, generation, question, documentIds,
                 questionType, ranked, tableMetadataMap, filteredRows,
                 documentMap, prompt, generationCalls>>

\* the text_chunks query: .in("document_id", documentIds) when ids are
\* given, .limit(100)
FetchChunks(ids) ==
  LET wanted(c) == ids = NoDocumentIds \/ c.document_id \in Range(ids)
  IN Slice(SelectSeq(text_chunks, wanted), FetchLimit)

\* the step without the two tests for an empty result
FactualFetchChunksNoEmptyTest ==
  /\ pc = "factual:chunks"
  /\ \E outcome \in StoreOutcomes :
       IF outcome # "data"
       THEN Catch("chunks") /\ UNCHANGED ranked
       ELSE /\ ranked' = RankBySimilarity(FetchChunks(documentIds),
                                          questionEmbedding, TopChunks)
            /\ pc' = "factual:documents"
            /\ UNCHANGED <<faults, response>>
  /\ UNCHANGED <<storeVars, ingestVars, generation, question, documentIds,
                 classification, questionType, questionEmbedding,
                 tableMetadataMap, filteredRows, documentMap, prompt,
                 generationCalls>>

\* the text_chunks query settles; the chunks are ranked
FactualFetchChunks ==
  /\ pc = "factual:chunks"
  /\ \E outcome \in StoreOutcomes :
       IF outcome # "data"
       THEN Catch("chunks") /\ UNCHANGED ranked
       ELSE LET typedChunks == FetchChunks(documentIds)
                chunksWithSimilarity ==
                  RankBySimilarity(typedChunks, questionEmbedding, TopChunks)
            IN /\ ranked' = chunksWithSimilarity
               /\ UNCHANGED faults
               /\ IF typedChunks = <<>> \/ chunksWithSimilarity = <<>>
                  THEN Return(NotAvailableAnswer)
                  ELSE pc' = "factual:documents" /\ UNCHANGED response
  /\ UNCHANGED <<storeVars, ingestVars, generation, question, documentIds,
                 classification, questionType, questionEmbedding,
                 tableMetadataMap, filteredRows, documentMap, prompt,
                 generationCalls>>

\* the documents query .in("id", ids): data is null when it reports an error
FetchDocumentNames(ids, outcome) ==
  IF outcome = "data"
  THEN [d \in {x.id : x \in {y \in documents : y.id \in ids}} |->
          (CHOOSE x \in documents : x.id = d).display_name]
  ELSE EmptyMap

FallbackName(d) == IF d = 1 THEN "Document 1" ELSE "Document 2"

\* documentMap.get(chunk.document_id) || `Document ${chunk.document_id}`
FactualDocName(map, d) == IF d \in DOMAIN map THEN map[d] ELSE FallbackName(d)

\* the display-name lookup settles; the context block is built and the
\* generation call is made
FactualFetchDocuments ==
  /\ pc = "factual:documents"
  /\ \E outcome \in StoreOutcomes :
       IF outcome = "reject"
       THEN Catch("documents") /\ UNCHANGED <<documentMap, prompt, generationCalls>>
       ELSE LET map == FetchDocumentNames({ranked[i].rec.document_id :
                                            i \in 1..Len(ranked)}, outcome)
            IN /\ documentMap' = map
               /\ prompt' = [i \in 1..Len(ranked) |->
                               [docName |-> FactualDocName(map, ranked[i].rec.document_id),
                                page |-> ranked[i].rec.page,
                                text |-> ranked[i].rec.text]]
               /\ faults' = IF outcome = "error" THEN faults \cup {"documents"}
                            ELSE faults
               /\ generationCalls' = generationCalls + 1
               /\ pc' = "factual:generation"
               /\ UNCHANGED response
  /\ UNCHANGED <<storeVars, ingestVars, generation, question, documentIds,
                 classification, questionType, questionEmbedding, ranked,
                 tableMetadataMap, filteredRows>>

\* steps 5 to 7 of answerFactualQuestion, on the reply of the generation call
FactualAnswer(llmResponse) ==
  LET parsed == parseFactualResponse(llmResponse) IN
  IF SaysNotAvailable(parsed.answer) THEN NotAvailableAnswer
  ELSE [answer |-> parsed.answer,
        evidence |-> parsed.quotedEvidence,
        citations |-> [i \in 1..Len(Slice(ranked, CitationCount)) |->
                         [documentName |-> FactualDocName(documentMap, ranked[i].rec.document_id),
                          page |-> ranked[i].rec.page,
                          chunkId |-> ranked[i].rec.id]],
        confidence |-> FactualConfidence(TopSimilarity(ranked))]

\* the generation call settles and the pipeline returns
FactualGenerate ==
  /\ pc = "factual:generation"
  /\ \E outcome \in Resolved(GenerationReplies) \cup {Rejected} :
       /\ generation' = outcome
       /\ IF outcome.ok
          THEN Return(FactualAnswer(outcome.value)) /\ UNCHANGED faults
          ELSE Catch("generation")
  /\ UNCHANGED <<storeVars, ingestVars, question, documentIds, classification,
                 questionType, questionEmbedding, ranked, tableMetadataMap,
                 filteredRows, documentMap, prompt, generationCalls>>

-----------------------------------------------------------------------------
(* answerFinancialQuestion *)

\* generateEmbedding(question) settles
FinancialEmbed ==
  /\ pc = "financial:embedding"
  /\ classification' = NoCall
  /\ \E outcome \in Resolved(QueryEmbeddings) \cup {Rejected} :
       IF outcome.ok
       THEN /\ questionEmbedding' = outcome.value
            /\ pc' = "financial:rows"
            /\ UNCHANGED <<faults, response>>
       ELSE /\ Catch("embedding")
            /\ UNCHANGED questionEmbedding
  /\ UNCHANGED <<storeVars, ingestVars, generation, question, documentIds,
                 questionType, ranked, tableMetadataMap, filteredRows,
                 documentMap, prompt, generationCalls>>

\* the table_rows query: .limit(100), no document filter
FetchRows == Slice(table_rows, FetchLimit)

\* the table_rows query settles; the rows are ranked
FinancialFetchRows ==
  /\ pc = "financial:rows"
  /\ \E outcome \in StoreOutcomes :
       IF outcome # "data"
       THEN Catch("rows") /\ UNCHANGED ranked
       ELSE LET rows == FetchRows
                rowsWithSimilarity == RankBySimilarity(rows, questionEmbedding, TopRows)
            IN /\ ranked' = rowsWithSimilarity
               /\ UNCHANGED faults
               /\ IF rows = <<>> \/ rowsWithSimilarity = <<>>
                  THEN Return(NotAvailableAnswer)
                  ELSE pc' = "financial:tables" /\ UNCHANGED response
  /\ UNCHANGED <<storeVars, ingestVars, generation, question, documentIds,
                 classification, questionType, questionEmbedding,
                 tableMetadataMap, filteredRows, documentMap, prompt,
                 generationCalls>>

\* the tables query .in("table_id", ids): data is null when it reports an error
FetchTableMetadata(ids, outcome) ==
  IF outcome = "data"
  THEN [t \in {x.table_id : x \in {y \in tables : y.table_id \in ids}} |->
          CHOOSE x \in tables : x.table_id = t]
  ELSE EmptyMap

\* meta && targetTableTypes.includes(meta.table_name || "")
TypeMatches(map, targets, row) ==
  /\ row.rec.table_id \in DOMAIN map
  /\ map[row.rec.table_id].table_name \in Range(targets)

\* the table-type filter without its fallback
TypeFilterNoFallback(rows, map, targets) ==
  IF targets = <<>> THEN rows
  ELSE LET keep(row) == TypeMatches(map, targets, row)
       IN SelectSeq(rows, keep)

\* the table-type filter and its fallback to the unfiltered rows
TypeFilter(rows, map, targets) ==
  IF targets = <<>> THEN rows
  ELSE LET keep(row) == TypeMatches(map, targets, row)
           kept == SelectSeq(rows, keep)
       IN IF kept = <<>> THEN rows ELSE kept

\* the table lookup settles; the table-type filter is applied
FinancialFetchTables ==
  /\ pc = "financial:tables"
  /\ \E outcome \in StoreOutcomes :
       IF outcome = "reject"
       THEN Catch("tables") /\ UNCHANGED <<tableMetadataMap, filteredRows>>
       ELSE LET map == FetchTableMetadata({ranked[i].rec.table_id :
                                            i \in 1..Len(ranked)}, outcome)
            IN /\ tableMetadataMap' = map
               /\ filteredRows' = TypeFilter(ranked, map, identifyTableTypes(question))
               /\ faults' = IF outcome = "error" THEN faults \cup {"tables"} ELSE faults
               /\ pc' = "financial:filter"
               /\ UNCHANGED response
  /\ UNCHANGED <<storeVars, ingestVars, generation, question, documentIds,
                 classification, questionType, questionEmbedding, ranked,
                 documentMap, prompt, generationCalls>>

\* the document filter with the fallback of the table-type filter
DocumentFilterWithFallback(rows, map, ids) ==
  IF ids = NoDocumentIds THEN rows
  ELSE LET keep(row) == /\ row.rec.table_id \in DOMAIN map
                        /\ map[row.rec.table_id].document_id \in Range(ids)
           kept == SelectSeq(rows, keep)
       IN IF kept = <<>> THEN rows ELSE kept

\* meta && documentIds.includes(meta.document_id), when ids are given
DocumentFilter(rows, map, ids) ==
  IF ids = NoDocumentIds THEN rows
  ELSE LET keep(row) == /\ row.rec.table_id \in DOMAIN map
                        /\ map[row.rec.table_id].document_id \in Range(ids)
       IN SelectSeq(rows, keep)

\* the document filter is applied and the display-name lookup is made
FinancialFilterDocuments ==
  /\ pc = "financial:filter"
  /\ filteredRows' = DocumentFilter(filteredRows, tableMetadataMap, documentIds)
  /\ pc' = "financial:documents"
  /\ UNCHANGED <<storeVars, ingestVars, generation, question, documentIds,
                 classification, questionType, questionEmbedding, ranked,
                 tableMetadataMap, documentMap, prompt, generationCalls,
                 faults, response>>

\* const meta = tableMetadataMap.get(row.table_id), and its absence
HasMeta(map, row) == row.rec.table_id \in DOMAIN map
MetaOf(map, row) == map[row.rec.table_id]

\* one block of tableContext
PromptBlock(map, names, row) ==
  LET known == HasMeta(map, row)
      above == IF known THEN Slice(MetaOf(map, row).context_above_lines, ContextLines)
               ELSE <<>>
      below == IF known THEN Slice(MetaOf(map, row).context_below_lines, ContextLines)
               ELSE <<>>
  IN [tableName |-> IF known /\ MetaOf(map, row).table_name # NULL
                    THEN MetaOf(map, row).table_name ELSE "Unknown",
      docName |-> IF known /\ MetaOf(map, row).document_id \in DOMAIN names
                  THEN names[MetaOf(map, row).document_id] ELSE "Unknown",
      page |-> IF known THEN MetaOf(map, row).page ELSE 0,
      rowData |-> row.rec.raw_text,
      contextAbove |-> IF above = <<>> THEN <<"N/A">> ELSE above,
      contextBelow |-> IF below = <<>> THEN <<"N/A">> ELSE below]

\* the display-name lookup settles; the evidence block is built and the
\* generation call is made
FinancialFetchDocuments ==
  /\ pc = "financial:documents"
  /\ \E outcome \in StoreOutcomes :
       IF outcome = "reject"
       THEN Catch("documents") /\ UNCHANGED <<documentMap, prompt, generationCalls>>
       ELSE LET documentIdsToFetch ==
                  {MetaOf(tableMetadataMap, filteredRows[i]).document_id :
                     i \in {j \in 1..Len(filteredRows) :
                              HasMeta(tableMetadataMap, filteredRows[j])}}
                map == FetchDocumentNames(documentIdsToFetch, outcome)
                shown == Slice(filteredRows, EvidenceRows)
            IN /\ documentMap' = map
               /\ prompt' = [i \in 1..Len(shown) |->
                               PromptBlock(tableMetadataMap, map, shown[i])]
               /\ faults' = IF outcome = "error" THEN faults \cup {"documents"}
                            ELSE faults
               /\ generationCalls' = generationCalls + 1
               /\ pc' = "financial:generation"
               /\ UNCHANGED response
  /\ UNCHANGED <<storeVars, ingestVars, generation, question, documentIds,
                 classification, questionType, questionEmbedding, ranked,
                 tableMetadataMap, filteredRows>>

\* one entry of values
ValueOf(map, row) ==
  LET known == HasMeta(map, row) IN
  [tableId |-> row.rec.table_id,
   tableName |-> IF known THEN MetaOf(map, row).table_name ELSE NULL,
   page |-> IF known THEN MetaOf(map, row).page ELSE 0,
   rawText |-> row.rec.raw_text,
   cells |-> row.rec.cells,
   contextAboveLines |-> IF known THEN MetaOf(map, row).context_above_lines ELSE <<>>,
   contextBelowLines |-> IF known THEN MetaOf(map, row).context_below_lines ELSE <<>>]

\* one entry of citations, from an entry of values
CitationOf(map, names, v) ==
  [documentName |->
     IF v.tableId \in DOMAIN map /\ map[v.tableId].document_id \in DOMAIN names
     THEN names[map[v.tableId].document_id] ELSE "Unknown Document",
   page |-> v.page,
   tableId |-> v.tableId]

\* the end of answerFinancialQuestion, on the reply of the generation call
FinancialAnswer(llmResponse) ==
  IF SaysNotAvailable(llmResponse) THEN NotAvailableAnswer
  ELSE LET shown == Slice(filteredRows, EvidenceRows)
           values == [i \in 1..Len(shown) |-> ValueOf(tableMetadataMap, shown[i])]
           cited == Slice(values, CitationCount)
       IN [answer |-> llmResponse,
           evidence |-> values,
           citations |-> [i \in 1..Len(cited) |->
                            CitationOf(tableMetadataMap, documentMap, cited[i])],
           confidence |-> FinancialConfidence(TopSimilarity(filteredRows))]

\* the generation call settles and the pipeline returns
FinancialGenerate ==
  /\ pc = "financial:generation"
  /\ \E outcome \in Resolved(GenerationReplies) \cup {Rejected} :
       /\ generation' = outcome
       /\ IF outcome.ok
          THEN Return(FinancialAnswer(outcome.value)) /\ UNCHANGED faults
          ELSE Catch("generation")
  /\ UNCHANGED <<storeVars, ingestVars, question, documentIds, classification,
                 questionType, questionEmbedding, ranked, tableMetadataMap,
                 filteredRows, documentMap, prompt, generationCalls>>

-----------------------------------------------------------------------------
(* Table normalizer.  A cell is a sequence of characters. *)

Digits == {"0", "1", "2", "3", "4", "5", "6", "7", "8", "9"}

DigitValue(c) == CHOOSE n \in 0..9 : ToString(n) = c

\* String.prototype.replace(/[...]/g, ""): drop the characters in set
Without(str, set) ==
  LET keep(c) == c \notin set IN SelectSeq(str, keep)

\* String.prototype.trim on characters
RECURSIVE TrimSpacesStart(_)
TrimSpacesStart(str) ==
  IF str # <<>> /\ Head(str) = " " THEN TrimSpacesStart(Tail(str)) ELSE str

RECURSIVE TrimSpacesEnd(_)
TrimSpacesEnd(str) ==
  IF str # <<>> /\ str[Len(str)] = " "
  THEN TrimSpacesEnd(SubSeq(str, 1, Len(str) - 1)) ELSE str

TrimSpaces(str) == TrimSpacesEnd(TrimSpacesStart(str))

\* length of the longest prefix of str made of digits
RECURSIVE DigitRun(_)
DigitRun(str) ==
  IF str # <<>> /\ Head(str) \in Digits THEN 1 + DigitRun(Tail(str)) ELSE 0

\* the natural number a digit string denotes
RECURSIVE NatOf(_)
NatOf(ds) ==
  IF ds = <<>> THEN 0
  ELSE 10 * NatOf(SubSeq(ds, 1, Len(ds) - 1)) + DigitValue(ds[Len(ds)])

\* a number m / 10^k with no trailing zero in its fraction
RECURSIVE Normal(_, _)
Normal(m, k) ==
  IF k > 0 /\ m % 10 = 0 THEN Normal(m \div 10, k - 1)
  ELSE [nan |-> FALSE, mantissa |-> m, decimals |-> k]

NaN == [nan |-> TRUE, mantissa |-> 0, decimals |-> 0]

\* parseFloat: leading white space is skipped and the longest prefix that
\* is a decimal literal (sign, digits, point, digits) is converted; NaN
\* when there is no such prefix.  Exponents are outside the alphabet.
parseFloat(str) ==
  LET s == TrimSpacesStart(str)
      signed == s # <<>> /\ Head(s) \in {"-", "+"}
      body == IF signed THEN Tail(s) ELSE s
      n == DigitRun(body)
      afterInt == SubSeq(body, n + 1, Len(body))
      f == IF afterInt # <<>> /\ Head(afterInt) = "."
           THEN DigitRun(Tail(afterInt)) ELSE 0
      digits == SubSeq(body, 1, n) \o SubSeq(afterInt, 2, f + 1)
      magnitude == NatOf(digits)
  IN IF n + f = 0 THEN NaN
     ELSE Normal(IF signed /\ Head(s) = "-" THEN 0 - magnitude ELSE magnitude, f)

Negated(num) == [num EXCEPT !.mantissa = 0 - num.mantissa]

\* parseNumericValue: NaN here stands for the null it returns
parseNumericValue(value) ==
  \* "Rs" is the one character of the rupee sign
  LET cleaned == TrimSpaces(Without(value, {",", "Rs", "%"})) IN
  IF Len(cleaned) >= 2 /\ Head(cleaned) = "(" /\ cleaned[Len(cleaned)] = ")"
  THEN LET num == parseFloat(Without(cleaned, {"(", ")"}))
       IN IF num.nan THEN NaN ELSE Negated(num)
  ELSE parseFloat(cleaned)

\* the label read one column to the left
ColumnLabelOneLeft(headerRow, colIdx) ==
  IF colIdx <= Len(headerRow) /\ headerRow[colIdx] # <<>>
  THEN headerRow[colIdx]
  ELSE <<"Column ", ToString(colIdx)>>

\* headerRow[colIdx] || `Column ${colIdx}`
ColumnLabel(headerRow, colIdx) ==
  IF colIdx + 1 <= Len(headerRow) /\ headerRow[colIdx + 1] # <<>>
  THEN headerRow[colIdx + 1]
  ELSE <<"Column ", ToString(colIdx)>>

\* the entries the inner loop pushes for grid row rowIdx (0-based indices)
RowEntries(grid, rowIdx) ==
  LET row == grid[rowIdx + 1] IN
  [colIdx \in 1..(Len(row) - 1) |->
     [rowLabel |-> row[1],
      columnLabel |-> ColumnLabel(grid[1], colIdx),
      period |-> ColumnLabel(grid[1], colIdx),
      value |-> row[colIdx + 1],
      numericValue |-> parseNumericValue(row[colIdx + 1]),
      rowIndex |-> rowIdx,
      columnIndex |-> colIdx]]

\* the outer loop: rows 1 .. upTo of the grid, in order
RECURSIVE EntriesUpTo(_, _)
EntriesUpTo(grid, upTo) ==
  IF upTo < 1 THEN <<>>
  ELSE EntriesUpTo(grid, upTo - 1) \o RowEntries(grid, upTo)

\* the outer loop started at the header row
normalizeTableRowsFromHeader(grid) ==
  IF Len(grid) < 2 THEN <<>>
  ELSE RowEntries(grid, 0) \o EntriesUpTo(grid, Len(grid) - 1)

\* if (!grid || grid.length < 2) return []; then the two loops
normalizeTableRows(grid) ==
  IF Len(grid) < 2 THEN <<>> ELSE EntriesUpTo(grid, Len(grid) - 1)

\* cells and grids of the model
GridCells == {<<>>, <<"(", "7", ")">>}
GridRows == SeqsUpTo(GridCells, MaxRowLen)
Grids == SeqsUpTo(GridRows, MaxGridRows)

\* extractTablesFromPDF hands a raw grid to normalizeTableRows
NormalizeTable ==
  /\ normalizerPc = "ready"
  /\ normalizedRows' = normalizeTableRows(rawTableGrid)
  /\ normalizerPc' = "done"
  /\ UNCHANGED <<storeVars, pc, question, documentIds, localVars, response,
                 rawTableGrid, chunkerVars, jobVars>>

InitNormalizer ==
  /\ documents = {}
  /\ tables = {}
  /\ text_chunks = <<>>
  /\ table_rows = <<>>
  /\ InitChat
  /\ rawTableGrid \in Grids
  /\ normalizedRows = <<>>
  /\ normalizerPc = "ready"
  /\ InitNoPages
  /\ InitNoJobs

NextNormalizer == NormalizeTable

\* cell strings for the numeric parser: every string of up to MaxCellLen
\* characters of CellAlphabet, and the cells the documentation names
CellAlphabet == {"(", ")", "-", "7", "0", ".", "%", " ", "t"}
DocumentedCells ==
  {<<"(", "1", "2", "3", ".", "4", "5", ")">>,
   <<"1", ",", "2", "3", "4">>,
   <<"1", "2", "%">>,
   <<"Rs", " ", "1", ",", "2", "3", "4">>,
   <<"1", ".", "4", "5", " ", "t", "i", "m", "e", "s">>,
   <<"t", "i", "m", "e", "s">>}
CellStrings == SeqsUpTo(CellAlphabet, MaxCellLen) \cup DocumentedCells

\* a grid of a header row and one data row holding one value cell
InitParser ==
  /\ documents = {}
  /\ tables = {}
  /\ text_chunks = <<>>
  /\ table_rows = <<>>
  /\ InitChat
  /\ rawTableGrid \in {<<<<<<"t">>, <<"7">>>>, <<<<"t">>, cell>>>> :
                          cell \in CellStrings}
  /\ normalizedRows = <<>>
  /\ normalizerPc = "ready"
  /\ InitNoPages
  /\ InitNoJobs

SpecParser == InitParser /\ [][NextNormalizer]_vars

SpecNormalizer == InitNormalizer /\ [][NextNormalizer]_vars

-----------------------------------------------------------------------------
(* chunkText: page texts are sequences of characters *)

DefaultChunkSize == 500   \* options.chunkSize || 500
DefaultOverlap == 100     \* options.overlap || 100
MinChunkLength == 50      \* chunkText.length > 50

Max(a, b) == IF a > b THEN a ELSE b

\* String.prototype.slice(from, to): a negative index counts from the end
JsSlice(str, from, to) ==
  LET at(i) == IF i < 0 THEN Max(Len(str) + i, 0) ELSE Min(i, Len(str))
  IN SubSeq(str, at(from) + 1, at(to))

\* String.prototype.trim on a long string, by the positions of its first
\* and last characters that are not white space
TrimText(str) ==
  LET inked == {i \in 1..Len(str) : str[i] # " "}
  IN IF inked = {} THEN <<>>
     ELSE SubSeq(str, CHOOSE i \in inked : \A j \in inked : i <= j,
                      CHOOSE i \in inked : \A j \in inked : i >= j)

\* n times the character ch
Run(ch, n) == [i \in 1..n |-> ch]

\* page texts as extractTextFromPDF leaves them, trimmed: a letters, b
\* spaces, c letters.  Lengths are chosen around the window size, the step
\* and the minimum length of both window sizes of ChunkOptions.
PageShapes ==
  {<<0, 0, 0>>, <<49, 0, 0>>, <<50, 0, 0>>, <<51, 0, 0>>,
   <<60, 0, 51>>, <<400, 60, 49>>, <<400, 60, 50>>, <<400, 60, 51>>}

PageTextOf(letter, shape) ==
  Run(letter, shape[1]) \o Run(" ", shape[2]) \o Run(letter, shape[3])

\* the pages loop of extractTextFromPDF: page numbers from 1, startIndex
\* the sum of the lengths of the texts before
RECURSIVE LengthBefore(_, _)
LengthBefore(shapes, i) ==
  IF i <= 1 THEN 0
  ELSE LengthBefore(shapes, i - 1)
         + shapes[i - 1][1] + shapes[i - 1][2] + shapes[i - 1][3]

MakePages(shapes) ==
  [i \in 1..Len(shapes) |->
     LET pageText == PageTextOf(ToString(i), shapes[i]) IN
     [page |-> i, text |-> pageText,
      startIndex |-> LengthBefore(shapes, i),
      endIndex |-> LengthBefore(shapes, i) + Len(pageText)]]

\* options: 0 stands for a member left out (or given as 0)
ChunkOptions == [chunkSize : {0, 60}, overlap : {0, 10}]

ChunkSizeOf(options) ==
  IF options.chunkSize = 0 THEN DefaultChunkSize ELSE options.chunkSize
OverlapOf(options) ==
  IF options.overlap = 0 THEN DefaultOverlap ELSE options.overlap

\* chunkText(pages, options) is called
InitChunker ==
  /\ documents = {}
  /\ tables = {}
  /\ text_chunks = <<>>
  /\ table_rows = <<>>
  /\ InitChat
  /\ InitNoGrid
  /\ chunkPages \in {MakePages(sh) : sh \in SeqsUpTo(PageShapes, MaxPages)}
  /\ chunkOptions \in ChunkOptions
  /\ chunkerPc = "loop"
  /\ pageIdx = 1
  /\ startPos = 0
  /\ chunks = <<>>
  /\ globalChunkIndex = 0
  /\ InitNoJobs

chatVars == <<pc, question, documentIds, localVars, response>>

\* one iteration of the while loop on the current page
ChunkWindow ==
  /\ chunkerPc = "loop"
  /\ pageIdx <= Len(chunkPages)
  /\ startPos < Len(chunkPages[pageIdx].text)
  /\ startPos >= 0 - MaxRewind
  /\ LET page == chunkPages[pageIdx]
         chunkSize == ChunkSizeOf(chunkOptions)
         endPos == Min(startPos + chunkSize, Len(page.text))
         chunkText == TrimText(JsSlice(page.text, startPos, endPos))
         kept == Len(chunkText) > MinChunkLength
     IN /\ chunks' = IF kept
                     THEN Append(chunks, [page |-> page.page,
                                          chunkIndex |-> globalChunkIndex,
                                          text |-> chunkText,
                                          startChar |-> page.startIndex + startPos,
                                          endChar |-> page.startIndex + endPos])
                     ELSE chunks
        /\ globalChunkIndex' = IF kept THEN globalChunkIndex + 1
                               ELSE globalChunkIndex
        /\ IF endPos >= Len(page.text)
           THEN pageIdx' = pageIdx + 1 /\ startPos' = 0
           ELSE /\ pageIdx' = pageIdx
                /\ startPos' = startPos + chunkSize - OverlapOf(chunkOptions)
  /\ UNCHANGED <<storeVars, chatVars, normalizerVars, jobVars, chunkPages,
                 chunkOptions, chunkerPc>>

\* the while loop ends on its condition: the for loop takes the next page
ChunkNextPage ==
  /\ chunkerPc = "loop"
  /\ pageIdx <= Len(chunkPages)
  /\ startPos >= Len(chunkPages[pageIdx].text)
  /\ pageIdx' = pageIdx + 1
  /\ startPos' = 0
  /\ UNCHANGED <<storeVars, chatVars, normalizerVars, jobVars, chunkPages,
                 chunkOptions, chunkerPc, chunks, globalChunkIndex>>

\* return chunks
ChunkReturn ==
  /\ chunkerPc = "loop"
  /\ pageIdx > Len(chunkPages)
  /\ chunkerPc' = "returned"
  /\ UNCHANGED <<storeVars, chatVars, normalizerVars, jobVars, chunkPages,
                 chunkOptions, pageIdx, startPos, chunks, globalChunkIndex>>

NextChunker == ChunkWindow \/ ChunkNextPage \/ ChunkReturn

SpecChunker == InitChunker /\ [][NextChunker]_vars

-----------------------------------------------------------------------------
(* The question-answering system: one chat request at a time over a store *)

Next ==
  \/ \E q \in Questions, ids \in DocumentIdFilters : ChatStart(q, ids)
  \/ ClassifyQuestion
  \/ FactualEmbed
  \/ FactualFetchChunks
  \/ FactualFetchDocuments
  \/ FactualGenerate
  \/ FinancialEmbed
  \/ FinancialFetchRows
  \/ FinancialFetchTables
  \/ FinancialFilterDocuments
  \/ FinancialFetchDocuments
  \/ FinancialGenerate

Spec == Init /\ [][Next]_vars

-----------------------------------------------------------------------------
(* The same system when an external call may never answer *)

\* where a chat request is suspended on a call of the OpenRouter client
ExternalAwaits ==
  {"classify", "factual:embedding", "factual:generation",
   "financial:embedding", "financial:generation"}

\* the call the request is suspended on never answers: its promise neither
\* resolves nor rejects, and nothing else is waiting on the request
NeverAnswers ==
  /\ pc \in ExternalAwaits
  /\ pc' = "unanswered"
  /\ UNCHANGED <<storeVars, ingestVars, question, documentIds, localVars,
                 response>>

NextUnanswered == Next \/ NeverAnswers

\* a step of the request that can be taken is taken: the continuation of a
\* settled promise runs
SpecUnanswered == Init /\ [][NextUnanswered]_vars /\ WF_vars(Next)

-----------------------------------------------------------------------------
(* The ranking step of both pipelines on larger candidate sets *)

\* embeddings for the ranking step: vectors of equal and of different
\* similarity to the questions, and the zero vector
RankingQuestions == {<<1, 0, 0>>, <<1, 1, 0>>, <<0, 0, 0>>}
RankingChunkEmbeddings == {NoEmbedding, <<0, 0, 0>>, <<1, 0, 0>>, <<0, 1, 0>>}
RankingRowEmbeddings == {<<1, 0, 0>>, <<0, 1, 0>>}

\* a pipeline has the question embedding and is about to fetch and rank
\* its candidates
InitRanking ==
  /\ documents = {[id |-> d, display_name |-> DisplayName(d)] : d \in DocIds}
  /\ tables = {StoredTables[t] : t \in TableIds}
  /\ \/ /\ text_chunks \in
             {MakeChunks([i \in 1..Len(e) |->
                            [document_id |-> 1, embedding |-> e[i]]]) :
                e \in SeqsUpTo(RankingChunkEmbeddings, MaxChunkCandidates)}
        /\ table_rows = <<>>
        /\ pc = "factual:chunks"
        /\ questionType = "factual"
     \/ /\ text_chunks = <<>>
        /\ table_rows \in
             {MakeRows([i \in 1..Len(e) |->
                          [table_id |-> "doc1_p52_t0", embedding |-> e[i]]]) :
                e \in SeqsUpTo(RankingRowEmbeddings, MaxRowCandidates)}
        /\ pc = "financial:rows"
        /\ questionType = "financial"
  /\ question = <<"revenue">>
  /\ documentIds = NoDocumentIds
  /\ classification = NoCall
  /\ questionEmbedding \in RankingQuestions
  /\ ranked = <<>>
  /\ tableMetadataMap = EmptyMap
  /\ filteredRows = <<>>
  /\ documentMap = EmptyMap
  /\ prompt = <<>>
  /\ generationCalls = 0
  /\ generation = NoCall
  /\ faults = {}
  /\ response = NoResponse
  /\ InitNoGrid
  /\ InitNoPages
  /\ InitNoJobs

NextRanking == FactualFetchChunks \/ FinancialFetchRows

SpecRanking == InitRanking /\ [][NextRanking]_vars

-----------------------------------------------------------------------------
(* identifyTableTypes on more questions *)

\* the lexical items of the questions: the keywords of the rules, in lower
\* and in upper case, items that hold a keyword, and items that hold none
TypeQuestionItems ==
  {"ratio", "Coverage", "debt service", "ICR", "ndcf",
   "net distributable cash flow", "distribution", "per unit", "DPU",
   "profit", "loss", "revenue", "income", "expenses", "p&l",
   "Balance Sheet", "assets", "liabilities", "equity",
   "debt service coverage ratio", "auditor", "trustee"}

MaxQuestionLen == 2
TypeQuestions == SeqsUpTo(TypeQuestionItems, MaxQuestionLen)

\* answerFinancialQuestion on such a question, its rows ranked and the lookup
\* of their tables to come
InitTableTypes ==
  /\ documents = {[id |-> d, display_name |-> DisplayName(d)] : d \in DocIds}
  /\ tables = {StoredTables[t] : t \in TableIds}
  /\ text_chunks = <<>>
  /\ table_rows = MakeRows([i \in 1..2 |->
                              [table_id |-> IF i = 1 THEN "doc1_p52_t0"
                                            ELSE "doc2_p7_t0",
                               embedding |-> <<1, 0, 0>>]])
  /\ pc = "financial:tables"
  /\ questionType = "financial"
  /\ question \in TypeQuestions
  /\ documentIds = NoDocumentIds
  /\ classification = NoCall
  /\ questionEmbedding = <<1, 0, 0>>
  /\ ranked = RankBySimilarity(table_rows, questionEmbedding, TopRows)
  /\ tableMetadataMap = EmptyMap
  /\ filteredRows = <<>>
  /\ documentMap = EmptyMap
  /\ prompt = <<>>
  /\ generationCalls = 0
  /\ generation = NoCall
  /\ faults = {}
  /\ response = NoResponse
  /\ InitNoGrid
  /\ InitNoPages
  /\ InitNoJobs

NextTableTypes == FinancialFetchTables

SpecTableTypes == InitTableTypes /\ [][NextTableTypes]_vars

-----------------------------------------------------------------------------
(* ingestDocument: concurrent calls over one store *)

\* at most MaxCalls calls of ingestDocument are started, on JobSlots slots,
\* and at most MaxFaults of the calls they await inside the try block fail
MaxCalls == 3
MaxFaults == 1
JobSlots == 2
JobIds == 1..JobSlots

\* chunksToInsert is flushed when it holds this many records
BatchSize == 50

FileNames == {"a.pdf", "b.pdf"}
FileDisplayName(f) == IF f = "a.pdf" THEN "Q3 Results" ELSE "Annual Report"

\* options.generateEmbeddings ?? true: true is the default, and what the
\* ingestion route passes
GenerateEmbeddingsOptions == {TRUE}

\* the vector the embedding call resolves with
IngestEmbeddings == {<<1, 0, 0>>}

\* chunkText(pages, ...) of the pages extractTextFromPDF reads from a file:
\* a.pdf has text for two chunks, b.pdf has no text layer
FileChunks(f) ==
  IF f = "a.pdf"
  THEN <<[page |-> 1, chunkIndex |-> 0, text |-> <<"a.pdf", 0>>],
         [page |-> 2, chunkIndex |-> 1, text |-> <<"a.pdf", 1>>]>>
  ELSE <<>>

\* result.tables of the extraction script: a.pdf has one table of a header
\* and a data row, b.pdf has two tables on one page, the first with a blank
\* row only and the second with one row
ScriptTables(f) ==
  IF f = "a.pdf"
  THEN <<[page |-> 1, table_index_on_page |-> 0, table_name |-> "RATIOS",
          raw_table_grid |-> <<<<"Particulars", "Q3">>, <<"DSCR", "1.45">>>>,
          context_above_lines |-> <<"Financial ratios">>,
          context_below_lines |-> <<>>]>>
  ELSE <<[page |-> 3, table_index_on_page |-> 0, table_name |-> NULL,
          raw_table_grid |-> <<<<" ">>>>,
          context_above_lines |-> <<>>,
          context_below_lines |-> <<>>],
         [page |-> 3, table_index_on_page |-> 1, table_name |-> "NDCF",
          raw_table_grid |-> <<<<"Total", "7">>>>,
          context_above_lines |-> <<>>,
          context_below_lines |-> <<>>]>>

\* what PythonShell.run can do: resolve with a result of success true, with a
\* result of success false, with no result, or reject
ScriptOutcomes == {"tables", "unsuccessful", "no results", "rejects"}

TableIdOf(documentId, page, index) ==
  <<"doc", documentId, "_p", page, "_t", index>>

\* extractTablesFromPDF on a script outcome that resolves
extractTablesFromPDF(outcome, f, documentId) ==
  IF outcome = "no results" THEN <<>>
  ELSE IF outcome = "unsuccessful" THEN <<>>
  ELSE LET result == ScriptTables(f) IN
       [i \in 1..Len(result) |->
          [tableId |-> TableIdOf(documentId, result[i].page,
                                 result[i].table_index_on_page),
           page |-> result[i].page,
           tableName |-> result[i].table_name,
           rawTableGrid |-> result[i].raw_table_grid,
           contextAboveLines |-> result[i].context_above_lines,
           contextBelowLines |-> result[i].context_below_lines]]

\* rowCells.join(" | ")
RECURSIVE JoinCells(_)
JoinCells(rowCells) ==
  IF Len(rowCells) = 0 THEN <<>>
  ELSE IF Len(rowCells) = 1 THEN <<rowCells[1]>>
  ELSE <<rowCells[1], " | ">> \o JoinCells(Tail(rowCells))

\* rowText.trim().length > 0: some item of the text is neither empty nor
\* white space (the separator " | " is not)
HasRowText(rowText) ==
  \E i \in 1..Len(rowText) : rowText[i] \notin {"", " "}

\* SQL NULL in an integer column, undefined where a number is expected
NoValue == 0

FilePageCount(f) == IF f = "a.pdf" THEN 2 ELSE 1

NoResult == [documentId |-> 0, success |-> FALSE, error |-> "no result yet"]
DUPLICATE == "Document already ingested (skipped duplicate)"

\* the locals of a slot on which no call runs; "existing" and "scriptOutcome"
\* record what the call met: the Document records of its file name when it
\* started, and what the table extraction script did; "submitted" records the
\* chunk_index of the records handed to an insert of text_chunks so far
IdleJob ==
  [pc |-> "idle", fileName |-> "", generateEmbeddings |-> TRUE,
   existing |-> {}, documentId |-> NoValue, chunks |-> <<>>, chunkPos |-> 1,
   chunksToInsert |-> <<>>, submitted |-> <<>>, scriptOutcome |-> NULL,
   extractedTables |-> <<>>,
   tablePos |-> 1, rowPos |-> 1, rowsToInsert |-> <<>>, error |-> "",
   result |-> NoResult]

\* the ids of the Document records with file name f
DocumentsNamed(f) == {d.id : d \in {x \in documents : x.file_name = f}}

\* the locals of call j with some of them assigned
SetJob(j, job) == jobs' = [jobs EXCEPT ![j] = job]

\* an exception reaches the catch block
IngestThrow(j, message) ==
  SetJob(j, [jobs[j] EXCEPT !.pc = "catch", !.error = message])

\* return: the locals other than the arguments and the result are gone
IngestReturn(j, result) ==
  SetJob(j, [IdleJob EXCEPT !.pc = "returned",
                            !.fileName = jobs[j].fileName,
                            !.generateEmbeddings = jobs[j].generateEmbeddings,
                            !.existing = jobs[j].existing,
                            !.documentId = jobs[j].documentId,
                            !.scriptOutcome = jobs[j].scriptOutcome,
                            !.result = result])

InitIngest ==
  /\ documents = {}
  /\ tables = {}
  /\ text_chunks = <<>>
  /\ table_rows = <<>>
  /\ InitChat
  /\ InitNoGrid
  /\ InitNoPages
  /\ ingestion_logs = <<>>
  /\ jobs = [j \in JobIds |-> IdleJob]
  /\ calls = 0
  /\ ingestFaults = 0

notJobVars == <<chatVars, normalizerVars, chunkerVars>>

\* an awaited call of the try block fails only while fewer than MaxFaults
\* have failed
Fails(fault) ==
  /\ fault => ingestFaults < MaxFaults
  /\ ingestFaults' = IF fault THEN ingestFaults + 1 ELSE ingestFaults

\* a call starts on the first slot that is free; the slots are those of
\* the callers there are, DOMAIN jobs
FreeSlot(j) ==
  /\ jobs[j].pc \in {"idle", "returned"}
  /\ \A i \in 1..(j - 1) : jobs[i].pc \notin {"idle", "returned"}

\* ingestDocument(filePath, metadata, options) is called; "existing" records
\* the Document records of that file name at this moment
IngestStart(j, f, g) ==
  /\ j \in DOMAIN jobs
  /\ FreeSlot(j)
  /\ calls < MaxCalls
  /\ calls' = calls + 1
  /\ SetJob(j, [IdleJob EXCEPT !.pc = "check", !.fileName = f,
                               !.generateEmbeddings = g,
                               !.existing = DocumentsNamed(f)])
  /\ UNCHANGED <<storeVars, ingestion_logs, ingestFaults, notJobVars>>

\* 1. select ... .eq("file_name", fileName).single(): data is the row when
\* exactly one row matches, and null otherwise; the error is not read
IngestCheckExisting(j) ==
  /\ j \in DOMAIN jobs
  /\ jobs[j].pc = "check"
  /\ \E outcome \in StoreOutcomes :
       LET found == DocumentsNamed(jobs[j].fileName) IN
       /\ Fails(outcome # "data")
       /\ IF outcome = "reject" THEN IngestThrow(j, "fetch failed")
          ELSE IF outcome = "data" /\ Cardinality(found) = 1
          THEN IngestReturn(j, [documentId |-> CHOOSE d \in found : TRUE,
                                success |-> TRUE, error |-> DUPLICATE])
          ELSE SetJob(j, [jobs[j] EXCEPT !.pc = "insert"])
  /\ UNCHANGED <<storeVars, ingestion_logs, calls, notJobVars>>

\* 2. insert the Document record; docError is thrown
IngestInsertDocument(j) ==
  /\ j \in DOMAIN jobs
  /\ jobs[j].pc = "insert"
  /\ \E outcome \in StoreOutcomes :
       /\ Fails(outcome # "data")
       /\ IF outcome = "reject"
          THEN IngestThrow(j, "fetch failed") /\ UNCHANGED documents
          ELSE IF outcome = "error"
          THEN /\ IngestThrow(j, "Failed to create document")
               /\ UNCHANGED documents
          ELSE LET id == Cardinality(documents) + 1 IN
               /\ documents' = documents \cup
                    {[id |-> id, file_name |-> jobs[j].fileName,
                      display_name |-> FileDisplayName(jobs[j].fileName),
                      page_count |-> NoValue]}
               /\ SetJob(j, [jobs[j] EXCEPT !.pc = "log", !.documentId = id])
  /\ UNCHANGED <<text_chunks, tables, table_rows, ingestion_logs, calls,
                 notJobVars>>

\* insert of an ingestion_logs row: the result of the insert is not read
LogInsert(outcome, entry) ==
  ingestion_logs' = IF outcome = "data" THEN Append(ingestion_logs, entry)
                    ELSE ingestion_logs

\* the "processing" log
IngestLogProcessing(j) ==
  /\ j \in DOMAIN jobs
  /\ jobs[j].pc = "log"
  /\ \E outcome \in StoreOutcomes :
       /\ Fails(outcome # "data")
       /\ LogInsert(outcome, [document_id |-> jobs[j].documentId,
                              status |-> "processing",
                              message |-> "Starting ingestion"])
       /\ IF outcome = "reject" THEN IngestThrow(j, "fetch failed")
          ELSE SetJob(j, [jobs[j] EXCEPT !.pc = "text"])
  /\ UNCHANGED <<storeVars, calls, notJobVars>>

\* 3. extractTextFromPDF resolves with the pages or rejects
IngestExtractText(j) ==
  /\ j \in DOMAIN jobs
  /\ jobs[j].pc = "text"
  /\ \E outcome \in {"pages", "rejects"} :
       /\ Fails(outcome # "pages")
       /\ IF outcome = "rejects" THEN IngestThrow(j, "Failed to extract text")
          ELSE SetJob(j, [jobs[j] EXCEPT !.pc = "page_count"])
  /\ UNCHANGED <<storeVars, ingestion_logs, calls, notJobVars>>

\* the loop without the insert of the remaining chunks
AfterChunkNoRemaining(job) ==
  IF Len(job.chunksToInsert) >= BatchSize THEN "insert chunks"
  ELSE IF job.chunkPos <= Len(job.chunks) THEN "chunk"
  ELSE "tables"

\* where the for loop over chunks goes on
AfterChunk(job) ==
  IF Len(job.chunksToInsert) >= BatchSize THEN "insert chunks"
  ELSE IF job.chunkPos <= Len(job.chunks) THEN "chunk"
  ELSE IF Len(job.chunksToInsert) > 0 THEN "insert chunks"
  ELSE "tables"

\* update of page_count (its result is not read), then 4. chunkText
IngestUpdatePageCount(j) ==
  /\ j \in DOMAIN jobs
  /\ jobs[j].pc = "page_count"
  /\ \E outcome \in StoreOutcomes :
       /\ Fails(outcome # "data")
       /\ documents' =
            IF outcome = "data"
            THEN {IF d.id = jobs[j].documentId
                  THEN [d EXCEPT !.page_count = FilePageCount(jobs[j].fileName)]
                  ELSE d : d \in documents}
            ELSE documents
       /\ IF outcome = "reject" THEN IngestThrow(j, "fetch failed")
          ELSE LET job == [jobs[j] EXCEPT !.chunks = FileChunks(jobs[j].fileName),
                                          !.chunkPos = 1,
                                          !.chunksToInsert = <<>>]
               IN SetJob(j, [job EXCEPT !.pc = AfterChunk(job)])
  /\ UNCHANGED <<text_chunks, tables, table_rows, ingestion_logs, calls,
                 notJobVars>>

\* the embedding of a record: that of the call when it is made and resolves
EmbeddingOutcomes(made) ==
  IF made THEN Resolved(IngestEmbeddings) \cup {Rejected} ELSE {NoCall}

EmbeddingOf(outcome) == IF outcome.ok THEN outcome.value ELSE NoEmbedding

\* the turn of the loop without the inner try: a failed embedding call is
\* thrown to the catch block
IngestChunkAborting(j) ==
  /\ j \in DOMAIN jobs
  /\ jobs[j].pc = "chunk"
  /\ \E outcome \in EmbeddingOutcomes(jobs[j].generateEmbeddings) :
       LET chunk == jobs[j].chunks[jobs[j].chunkPos]
           record == [document_id |-> jobs[j].documentId, page |-> chunk.page,
                      chunk_index |-> chunk.chunkIndex, text |-> chunk.text,
                      embedding |-> EmbeddingOf(outcome)]
           job == [jobs[j] EXCEPT !.chunksToInsert = Append(@, record),
                                  !.chunkPos = @ + 1]
       IN /\ Fails(outcome = Rejected)
          /\ IF outcome = Rejected
             THEN IngestThrow(j, "Failed to generate embedding")
             ELSE SetJob(j, [job EXCEPT !.pc = AfterChunk(job)])
  /\ UNCHANGED <<storeVars, ingestion_logs, calls, notJobVars>>

\* 5. one turn of the loop over chunks: a failed embedding call leaves the
\* embedding undefined
IngestChunk(j) ==
  /\ j \in DOMAIN jobs
  /\ jobs[j].pc = "chunk"
  /\ \E outcome \in EmbeddingOutcomes(jobs[j].generateEmbeddings) :
       LET chunk == jobs[j].chunks[jobs[j].chunkPos]
           record == [document_id |-> jobs[j].documentId, page |-> chunk.page,
                      chunk_index |-> chunk.chunkIndex, text |-> chunk.text,
                      embedding |-> EmbeddingOf(outcome)]
           job == [jobs[j] EXCEPT !.chunksToInsert = Append(@, record),
                                  !.chunkPos = @ + 1]
       IN /\ Fails(outcome = Rejected)
          /\ SetJob(j, [job EXCEPT !.pc = AfterChunk(job)])
  /\ UNCHANGED <<storeVars, ingestion_logs, calls, notJobVars>>

\* rows appended to a table with a SERIAL id
Inserted(stored, records) ==
  stored \o [i \in 1..Len(records) |->
               [id |-> Len(stored) + i] @@ records[i]]

\* insert of chunksToInsert, of a full batch or of the remaining chunks:
\* an error is logged only
IngestInsertChunks(j) ==
  /\ j \in DOMAIN jobs
  /\ jobs[j].pc = "insert chunks"
  /\ \E outcome \in StoreOutcomes :
       /\ Fails(outcome # "data")
       /\ text_chunks' = IF outcome = "data"
                         THEN Inserted(text_chunks, jobs[j].chunksToInsert)
                         ELSE text_chunks
       /\ IF outcome = "reject" THEN IngestThrow(j, "fetch failed")
          ELSE SetJob(j, [jobs[j] EXCEPT
                 !.chunksToInsert = <<>>,
                 !.submitted = @ \o [i \in 1..Len(jobs[j].chunksToInsert) |->
                                       jobs[j].chunksToInsert[i].chunk_index],
                 !.pc = IF jobs[j].chunkPos <= Len(jobs[j].chunks)
                        THEN "chunk" ELSE "tables"])
  /\ UNCHANGED <<documents, tables, table_rows, ingestion_logs, calls,
                 notJobVars>>

\* where the for loop over extractedTables goes on
AfterTable(job) ==
  IF job.tablePos <= Len(job.extractedTables) THEN "table" ELSE "completed"

\* 6. extractTablesFromPDF: it rethrows what the script call throws
IngestExtractTables(j) ==
  /\ j \in DOMAIN jobs
  /\ jobs[j].pc = "tables"
  /\ \E outcome \in ScriptOutcomes :
       /\ Fails(outcome # "tables")
       /\ IF outcome = "rejects"
          THEN IngestThrow(j, "Failed to extract tables")
          ELSE LET job == [jobs[j] EXCEPT
                             !.scriptOutcome = outcome,
                             !.extractedTables =
                                extractTablesFromPDF(outcome, jobs[j].fileName,
                                                     jobs[j].documentId),
                             !.tablePos = 1]
               IN SetJob(j, [job EXCEPT !.pc = AfterTable(job)])
  /\ UNCHANGED <<storeVars, ingestion_logs, calls, notJobVars>>

\* insert of the table metadata when tableError does not end the turn of the
\* loop: the rows of the table are built and inserted all the same
IngestInsertTableNoContinue(j) ==
  /\ j \in DOMAIN jobs
  /\ jobs[j].pc = "table"
  /\ \E outcome \in StoreOutcomes :
       LET table == jobs[j].extractedTables[jobs[j].tablePos]
           taken == \E t \in tables : t.table_id = table.tableId
           next == [jobs[j] EXCEPT !.tablePos = @ + 1]
       IN /\ Fails(outcome # "data")
          /\ IF outcome = "reject"
             THEN IngestThrow(j, "fetch failed") /\ UNCHANGED tables
             ELSE /\ tables' = IF outcome = "error" \/ taken THEN tables
                               ELSE tables \cup
                       {[table_id |-> table.tableId,
                         document_id |-> jobs[j].documentId,
                         page |-> table.page, table_name |-> table.tableName,
                         context_above_lines |-> table.contextAboveLines,
                         context_below_lines |-> table.contextBelowLines]}
                  /\ IF Len(table.rawTableGrid) > 0
                     THEN SetJob(j, [jobs[j] EXCEPT !.pc = "row", !.rowPos = 1,
                                                    !.rowsToInsert = <<>>])
                     ELSE SetJob(j, [next EXCEPT !.pc = AfterTable(next)])
  /\ UNCHANGED <<documents, text_chunks, table_rows, ingestion_logs, calls,
                 notJobVars>>

\* insert of the table metadata: on tableError the loop continues with the
\* next table; table_id is UNIQUE
IngestInsertTable(j) ==
  /\ j \in DOMAIN jobs
  /\ jobs[j].pc = "table"
  /\ \E outcome \in StoreOutcomes :
       LET table == jobs[j].extractedTables[jobs[j].tablePos]
           taken == \E t \in tables : t.table_id = table.tableId
           next == [jobs[j] EXCEPT !.tablePos = @ + 1]
       IN /\ Fails(outcome # "data")
          /\ IF outcome = "reject"
             THEN IngestThrow(j, "fetch failed") /\ UNCHANGED tables
             ELSE IF outcome = "error" \/ taken
             THEN /\ SetJob(j, [next EXCEPT !.pc = AfterTable(next)])
                  /\ UNCHANGED tables
             ELSE /\ tables' = tables \cup
                       {[table_id |-> table.tableId,
                         document_id |-> jobs[j].documentId,
                         page |-> table.page, table_name |-> table.tableName,
                         context_above_lines |-> table.contextAboveLines,
                         context_below_lines |-> table.contextBelowLines]}
                  /\ IF Len(table.rawTableGrid) > 0
                     THEN SetJob(j, [jobs[j] EXCEPT !.pc = "row", !.rowPos = 1,
                                                    !.rowsToInsert = <<>>])
                     ELSE SetJob(j, [next EXCEPT !.pc = AfterTable(next)])
  /\ UNCHANGED <<documents, text_chunks, table_rows, ingestion_logs, calls,
                 notJobVars>>

\* one turn of the loop over rawTableGrid: a row of every grid row, the
\* header row too
IngestRow(j) ==
  /\ j \in DOMAIN jobs
  /\ jobs[j].pc = "row"
  /\ LET table == jobs[j].extractedTables[jobs[j].tablePos]
         rowCells == table.rawTableGrid[jobs[j].rowPos]
         rowText == JoinCells(rowCells)
     IN \E outcome \in EmbeddingOutcomes(jobs[j].generateEmbeddings
                                          /\ HasRowText(rowText)) :
          /\ Fails(outcome = Rejected)
          /\ SetJob(j, [jobs[j] EXCEPT
            !.rowsToInsert =
               Append(@, [table_id |-> table.tableId,
                          row_index |-> jobs[j].rowPos - 1,
                          cells |-> rowCells, raw_text |-> rowText,
                          embedding |-> EmbeddingOf(outcome)]),
            !.rowPos = @ + 1,
            !.pc = IF jobs[j].rowPos < Len(table.rawTableGrid)
                   THEN "row" ELSE "insert rows"])
  /\ UNCHANGED <<storeVars, ingestion_logs, calls, notJobVars>>

\* insert of rowsToInsert: rowsError is logged only
IngestInsertRows(j) ==
  /\ j \in DOMAIN jobs
  /\ jobs[j].pc = "insert rows"
  /\ \E outcome \in StoreOutcomes :
       /\ Fails(outcome # "data")
       /\ table_rows' = IF outcome = "data"
                        THEN Inserted(table_rows, jobs[j].rowsToInsert)
                        ELSE table_rows
       /\ IF outcome = "reject" THEN IngestThrow(j, "fetch failed")
          ELSE LET next == [jobs[j] EXCEPT !.tablePos = @ + 1,
                                           !.rowsToInsert = <<>>]
               IN SetJob(j, [next EXCEPT !.pc = AfterTable(next)])
  /\ UNCHANGED <<documents, text_chunks, tables, ingestion_logs, calls,
                 notJobVars>>

\* the "completed" log, then return { documentId, success: true }
IngestLogCompleted(j) ==
  /\ j \in DOMAIN jobs
  /\ jobs[j].pc = "completed"
  /\ \E outcome \in StoreOutcomes :
       /\ Fails(outcome # "data")
       /\ LogInsert(outcome, [document_id |-> jobs[j].documentId,
                              status |-> "completed",
                              message |-> "Successfully ingested"])
       /\ IF outcome = "reject" THEN IngestThrow(j, "fetch failed")
          ELSE IngestReturn(j, [documentId |-> jobs[j].documentId,
                          success |-> TRUE, error |-> NULL])
  /\ UNCHANGED <<storeVars, calls, notJobVars>>

\* the catch block: a "failed" log with document_id undefined, inside its
\* own try, then return { documentId: -1, success: false, error }; the insert
\* of the log can fail with what is being handled
IngestCatch(j) ==
  /\ j \in DOMAIN jobs
  /\ jobs[j].pc = "catch"
  /\ \E outcome \in StoreOutcomes :
       LogInsert(outcome, [document_id |-> NoValue, status |-> "failed",
                           message |-> jobs[j].error])
  /\ IngestReturn(j, [documentId |-> 0 - 1, success |-> FALSE,
                error |-> jobs[j].error])
  /\ UNCHANGED <<storeVars, calls, ingestFaults, notJobVars>>

NextIngest ==
  \/ \E j \in JobIds, f \in FileNames, g \in GenerateEmbeddingsOptions :
       IngestStart(j, f, g)
  \/ \E j \in JobIds : IngestCheckExisting(j)
  \/ \E j \in JobIds : IngestInsertDocument(j)
  \/ \E j \in JobIds : IngestLogProcessing(j)
  \/ \E j \in JobIds : IngestExtractText(j)
  \/ \E j \in JobIds : IngestUpdatePageCount(j)
  \/ \E j \in JobIds : IngestChunk(j)
  \/ \E j \in JobIds : IngestInsertChunks(j)
  \/ \E j \in JobIds : IngestExtractTables(j)
  \/ \E j \in JobIds : IngestInsertTable(j)
  \/ \E j \in JobIds : IngestRow(j)
  \/ \E j \in JobIds : IngestInsertRows(j)
  \/ \E j \in JobIds : IngestLogCompleted(j)
  \/ \E j \in JobIds : IngestCatch(j)

SpecIngest == InitIngest /\ [][NextIngest]_vars

-----------------------------------------------------------------------------
(* Ingestion by one caller, and a question asked over the store it fills *)

\* one caller of ingestDocument, and a chat request that is about to fetch
\* its candidates: it can do so before, during or after an ingestion
InitIngestQuery ==
  /\ documents = {}
  /\ tables = {}
  /\ text_chunks = <<>>
  /\ table_rows = <<>>
  /\ \/ pc = "factual:chunks" /\ questionType = "factual"
     \/ pc = "financial:rows" /\ questionType = "financial"
  /\ question = <<"revenue">>
  /\ documentIds = NoDocumentIds
  /\ classification = NoCall
  /\ questionEmbedding \in QueryEmbeddings
  /\ ranked = <<>>
  /\ tableMetadataMap = EmptyMap
  /\ filteredRows = <<>>
  /\ documentMap = EmptyMap
  /\ prompt = <<>>
  /\ generationCalls = 0
  /\ generation = NoCall
  /\ faults = {}
  /\ response = NoResponse
  /\ InitNoGrid
  /\ InitNoPages
  /\ ingestion_logs = <<>>
  /\ jobs = <<IdleJob>>
  /\ calls = 0
  /\ ingestFaults = 0

NextIngestQuery == NextIngest \/ FactualFetchChunks \/ FinancialFetchRows

SpecIngestQuery == InitIngestQuery /\ [][NextIngestQuery]_vars

-----------------------------------------------------------------------------
(* Properties *)

Done == pc = "done"

\* the fixed not-available response and the generic error response
IsNotAvailable(r) ==
  /\ r.answer = <<NOT_AVAILABLE>>
  /\ r.confidence = "not_found"
  /\ r.citations = <<>>
  /\ r.evidence = <<>>

IsErrorResponse(r) ==
  /\ r.answer = <<ERROR_ANSWER>>
  /\ r.confidence = "not_found"
  /\ r.citations = <<>>
  /\ r.evidence = <<>>

\* the stored table a table id names
StoredTable(t) == CHOOSE x \in tables : x.table_id = t

\* C1: whenever a store query, the embedding call or the generation call of
\* a request failed, chat returns the generic error response (error
\* message, confidence not_found, no citations, no evidence).
C1_FaultGivesErrorResponse ==
  (Done /\ faults # {}) => IsErrorResponse(response)

\* the targets of the question and the ranked rows whose looked-up parent
\* table is named by one of them
C2_Targets == Range(identifyTableTypes(question))
C2_Matching ==
  {i \in 1..Len(ranked) :
     /\ ranked[i].rec.table_id \in DOMAIN tableMetadataMap
     /\ tableMetadataMap[ranked[i].rec.table_id].table_name \in C2_Targets}

\* C2: after the table-type filter, with target types identified: if no
\* ranked row has a parent table named by a target type, all ranked rows are
\* kept; otherwise exactly the matching rows are kept, in rank order.  A
\* non-empty ranked set never becomes empty.
C2_TypeFilterFallback ==
  (pc = "financial:filter" /\ C2_Targets # {}) =>
     /\ C2_Matching = {} => filteredRows = ranked
     /\ C2_Matching # {} =>
          filteredRows =
            [k \in 1..Cardinality(C2_Matching) |->
               ranked[CHOOSE i \in C2_Matching :
                        Cardinality({j \in C2_Matching : j < i}) = k - 1]]
     /\ ranked # <<>> => filteredRows # <<>>

\* the type filter found no match among several ranked rows whose parent
\* tables were looked up, and fell back
C2_Witness ==
  /\ pc = "financial:filter"
  /\ C2_Targets # {}
  /\ C2_Matching = {}
  /\ "tables" \notin faults
  /\ Len(ranked) >= 2
  /\ filteredRows = ranked

\* C3: every entry of the values list carries the provenance of a stored
\* row: the row's table id, raw text and cells, and the stored page and
\* context lines of that table.
C3_ValuesCarryStoredProvenance ==
  (Done /\ response.questionType = "financial") =>
     \A i \in 1..Len(response.evidence) :
        LET v == response.evidence[i] IN
        /\ \E j \in 1..Len(table_rows) :
              /\ table_rows[j].table_id = v.tableId
              /\ table_rows[j].raw_text = v.rawText
              /\ table_rows[j].cells = v.cells
        /\ v.page = StoredTable(v.tableId).page
        /\ v.contextAboveLines = StoredTable(v.tableId).context_above_lines
        /\ v.contextBelowLines = StoredTable(v.tableId).context_below_lines

\* the similarity dot / sqrt(mag1 * mag2) is defined and exceeds num / den
Exceeds(sim, num, den) ==
  /\ sim.mag1 * sim.mag2 > 0
  /\ sim.dot > 0
  /\ den * den * sim.dot * sim.dot > num * num * sim.mag1 * sim.mag2

\* C4: when the generation call returns the fixed refusal phrase, the
\* response is the fixed not-available response, whatever the top
\* similarity score.
C4_RefusalGivesNotAvailable ==
  (Done /\ generation.ok /\ generation.value = <<NOT_AVAILABLE>>) =>
     IsNotAvailable(response)

\* a refusal on evidence whose top similarity exceeds 0.8
C4_Witness ==
  /\ Done
  /\ generation.ok
  /\ generation.value = <<NOT_AVAILABLE>>
  /\ ranked # <<>>
  /\ Exceeds(ranked[1].similarity, 4, 5)
  /\ IsNotAvailable(response)

\* the candidates with an embedding that the store holds for the request
C5_Usable ==
  IF questionType = "factual"
  THEN {i \in 1..Len(text_chunks) :
          /\ documentIds = NoDocumentIds
                \/ \E k \in 1..Len(documentIds) :
                      documentIds[k] = text_chunks[i].document_id
          /\ text_chunks[i].embedding # NoEmbedding}
  ELSE {i \in 1..Len(table_rows) : table_rows[i].embedding # NoEmbedding}

\* C5: when the question was embedded and the store returned no candidate
\* with an embedding, the response is the fixed not-available response and
\* no generation call was made.
C5_NoCandidateNoGeneration ==
  (Done /\ faults = {} /\ C5_Usable = {}) =>
     IsNotAvailable(response) /\ generationCalls = 0

\* a store whose chunks all lack an embedding
C5_Witness ==
  /\ Done
  /\ faults = {}
  /\ questionType = "factual"
  /\ text_chunks # <<>>
  /\ C5_Usable = {}
  /\ IsNotAvailable(response)

\* no candidate the store holds for the request has a similarity to the
\* question above the near-zero threshold 1 / 10
C6_AllNearZero ==
  IF questionType = "factual"
  THEN \A i \in C5_Usable :
          ~Exceeds(CosineSimilarity(questionEmbedding, text_chunks[i].embedding), 1, 10)
  ELSE \A i \in C5_Usable :
          ~Exceeds(CosineSimilarity(questionEmbedding, table_rows[i].embedding), 1, 10)

\* a request that ran without a failed call up to its generation reply
C6_Answered == Done /\ faults = {} /\ questionEmbedding # <<>>

\* C6: when no candidate is above the near-zero threshold the
\* response is the fixed not-available response, whatever the generation
\* call returns.
C6_NearZeroGivesNotAvailable ==
  (C6_Answered /\ C6_AllNearZero) => IsNotAvailable(response)

\* the tier of a similarity under thresholds h and m, given in hundredths
C7_Tier(sim, h, m) ==
  IF Exceeds(sim, h, 100) THEN "high"
  ELSE IF Exceeds(sim, m, 100) THEN "medium" ELSE "low"

\* C7: on every answer that is neither a refusal nor an error the confidence
\* is the tier of the top similarity: thresholds 0.8 and 0.6 on the first
\* ranked chunk, 0.75 and 0.5 on the first row left by the filters (low
\* when no row is left).
C7_ConfidenceIsTierOfTopSimilarity ==
  (Done /\ response.confidence # "not_found") =>
     IF response.questionType = "factual"
     THEN response.confidence = C7_Tier(ranked[1].similarity, 80, 60)
     ELSE IF filteredRows = <<>> THEN response.confidence = "low"
          ELSE response.confidence = C7_Tier(filteredRows[1].similarity, 75, 50)

\* a financial answer on a top similarity of 0.8, above 0.75: high
C7_Witness ==
  /\ Done
  /\ response.questionType = "financial"
  /\ response.confidence = "high"
  /\ filteredRows # <<>>
  /\ ~Exceeds(filteredRows[1].similarity, 80, 100)

\* the reply of the classification call holds the word, in any case
C8_Mentions(forms) ==
  \E i \in 1..Len(classification.value) : classification.value[i] \in forms
C8_Financial == C8_Mentions({"financial", "FINANCIAL", "non-financial"})
C8_Factual == C8_Mentions({"factual", "Factual"})

\* C8: classifyQuestion returns factual or financial; financial when the
\* call throws and when the reply holds both words or neither; factual
\* exactly when the reply holds "factual" and not "financial".
C8_RouterDefaultsToFinancial ==
  (pc \in {"factual:embedding", "financial:embedding"}) =>
     /\ questionType \in {"factual", "financial"}
     /\ ~classification.ok => questionType = "financial"
     /\ classification.ok =>
          /\ (C8_Financial <=> C8_Factual) => questionType = "financial"
          /\ questionType = "factual" <=> (C8_Factual /\ ~C8_Financial)

\* a reply holding both words is routed to the financial pipeline
C8_Witness ==
  /\ pc = "financial:embedding"
  /\ classification.ok
  /\ C8_Financial
  /\ C8_Factual

\* the document a citation or an evidentiary value belongs to
C9_ChunkDocument(id) ==
  (CHOOSE c \in Range(text_chunks) : c.id = id).document_id
C9_TableDocument(t) == StoredTable(t).document_id
C9_Requested == {documentIds[k] : k \in 1..Len(documentIds)}

\* C9: with a non-empty documentIds filter every citation and every
\* evidentiary value of the response belongs to a requested document.
C9_DocumentFilterIsHard ==
  (Done /\ documentIds # NoDocumentIds) =>
     IF response.questionType = "factual"
     THEN \A i \in 1..Len(response.citations) :
             C9_ChunkDocument(response.citations[i].chunkId) \in C9_Requested
     ELSE /\ \A i \in 1..Len(response.citations) :
                C9_TableDocument(response.citations[i].tableId) \in C9_Requested
          /\ \A i \in 1..Len(response.evidence) :
                C9_TableDocument(response.evidence[i].tableId) \in C9_Requested

\* every ranked row belongs to another document than the requested one:
\* the filter leaves nothing and nothing is re-admitted
C9_Witness ==
  /\ Done
  /\ documentIds # NoDocumentIds
  /\ response.questionType = "financial"
  /\ response.confidence # "not_found"
  /\ "tables" \notin faults
  /\ ranked # <<>>
  /\ response.evidence = <<>>

\* the number of cells after the first in the data rows up to row upTo
RECURSIVE C10_DataCells(_, _)
C10_DataCells(grid, upTo) ==
  IF upTo < 2 THEN 0
  ELSE C10_DataCells(grid, upTo - 1)
         + (IF Len(grid[upTo]) > 1 THEN Len(grid[upTo]) - 1 ELSE 0)

\* a grid of at least 2 rows whose header has at least 2 cells was normalized
C10_Normalized ==
  /\ normalizerPc = "done"
  /\ Len(rawTableGrid) >= 2
  /\ Len(rawTableGrid[1]) >= 2

C11_Cell == rawTableGrid[2][2]
C11_Parsed == normalizerPc = "done" /\ Len(rawTableGrid) = 2 /\ Len(normalizedRows) = 1

\* the reference parser.  A decimal literal is digits with at most one
\* point and at least one digit; a number is a literal with an optional
\* sign.
C11_IsLiteral(str) ==
  /\ \A i \in 1..Len(str) : str[i] \in Digits \cup {"."}
  /\ Cardinality({i \in 1..Len(str) : str[i] = "."}) <= 1
  /\ \E i \in 1..Len(str) : str[i] \in Digits

\* the integer the digits of a literal spell, and its count of decimals
RECURSIVE C11_Spelled(_)
C11_Spelled(str) ==
  IF str = <<>> THEN 0
  ELSE LET front == SubSeq(str, 1, Len(str) - 1)
       IN IF str[Len(str)] = "." THEN C11_Spelled(front)
          ELSE 10 * C11_Spelled(front)
                 + (CHOOSE n \in 0..9 : ToString(n) = str[Len(str)])

C11_Decimals(str) ==
  IF \E i \in 1..Len(str) : str[i] = "."
  THEN Len(str) - (CHOOSE i \in 1..Len(str) : str[i] = ".")
  ELSE 0

\* m / 10^k reduced to the least k
RECURSIVE C11_Reduced(_, _)
C11_Reduced(m, k) ==
  IF k > 0 /\ m % 10 = 0 THEN C11_Reduced(m \div 10, k - 1)
  ELSE [nan |-> FALSE, mantissa |-> m, decimals |-> k]

C11_Null == [nan |-> TRUE, mantissa |-> 0, decimals |-> 0]

C11_Positive(str) ==
  IF C11_IsLiteral(str)
  THEN C11_Reduced(C11_Spelled(str), C11_Decimals(str))
  ELSE C11_Null

C11_Number(str) ==
  IF str # <<>> /\ Head(str) = "-"
  THEN LET n == C11_Positive(Tail(str))
       IN IF n.nan THEN n ELSE [n EXCEPT !.mantissa = 0 - n.mantissa]
  ELSE IF str # <<>> /\ Head(str) = "+" THEN C11_Positive(Tail(str))
  ELSE C11_Positive(str)

C11_Stripped(cell) ==
  LET kept == SelectSeq(cell, LAMBDA c : c \notin {",", "Rs", "%"})
      first == CHOOSE i \in 1..(Len(kept) + 1) :
                 /\ \A j \in 1..(i - 1) : kept[j] = " "
                 /\ i = Len(kept) + 1 \/ kept[i] # " "
      last == CHOOSE i \in 0..Len(kept) :
                 /\ \A j \in (i + 1)..Len(kept) : kept[j] = " "
                 /\ i = 0 \/ kept[i] # " "
  IN SubSeq(kept, first, last)

C11_Reference(cell) ==
  LET rest == C11_Stripped(cell) IN
  IF Len(rest) >= 2 /\ rest[1] = "(" /\ rest[Len(rest)] = ")"
  THEN LET n == C11_Positive(C11_Stripped(SubSeq(rest, 2, Len(rest) - 1)))
       IN IF n.nan THEN n ELSE [n EXCEPT !.mantissa = 0 - n.mantissa]
  ELSE C11_Number(rest)

\* C11: parseNumericValue agrees with the reference parser on every cell
\* string: separators, currency symbols and percent signs removed, a
\* string wrapped in one pair of parentheses is the negation of its
\* interior parsed as a positive number, any other is parsed directly.
C11_AgreesWithReference ==
  C11_Parsed => normalizedRows[1].numericValue = C11_Reference(C11_Cell)

\* C12: for every cell string that is not a number the entry has
\* numericValue null and its value is the cell string unchanged.
C12_NotANumberGivesNull ==
  (C11_Parsed /\ C11_Reference(C11_Cell).nan) =>
     /\ normalizedRows[1].numericValue.nan
     /\ normalizedRows[1].value = C11_Cell

\* the entries are in row-major order with indices from 1, and rowLabel and
\* value are the first cell of the grid row and the cell itself
C13_RowMajor ==
  /\ \A i \in 1..Len(normalizedRows) :
        LET e == normalizedRows[i] IN
        /\ e.rowIndex \in 1..(Len(rawTableGrid) - 1)
        /\ e.columnIndex \in 1..(Len(rawTableGrid[e.rowIndex + 1]) - 1)
        /\ e.rowLabel = rawTableGrid[e.rowIndex + 1][1]
        /\ e.value = rawTableGrid[e.rowIndex + 1][e.columnIndex + 1]
  /\ \A i, j \in 1..Len(normalizedRows) :
        i < j =>
          \/ normalizedRows[i].rowIndex < normalizedRows[j].rowIndex
          \/ /\ normalizedRows[i].rowIndex = normalizedRows[j].rowIndex
             /\ normalizedRows[i].columnIndex < normalizedRows[j].columnIndex

\* C13 as claimed: the output lists the data cells in row-major order, and
\* each entry's rowLabel, columnLabel and value are the first cell of its
\* grid row, the header cell of its column and the unmodified cell.
C13_LabelsAreGridCells ==
  normalizerPc = "done" =>
     /\ C13_RowMajor
     /\ \A i \in 1..Len(normalizedRows) :
          LET e == normalizedRows[i] IN
          /\ e.columnIndex + 1 <= Len(rawTableGrid[1])
          /\ e.columnLabel = rawTableGrid[1][e.columnIndex + 1]

\* C13 as amended: the same, with columnLabel the header cell of the column
\* when the header has a non-empty cell there, and "Column <columnIndex>"
\* otherwise.
C13_LabelsAreGridCellsOrColumnN ==
  normalizerPc = "done" =>
     /\ C13_RowMajor
     /\ \A i \in 1..Len(normalizedRows) :
          LET e == normalizedRows[i]
              inHeader == /\ e.columnIndex + 1 <= Len(rawTableGrid[1])
                          /\ rawTableGrid[1][e.columnIndex + 1] # <<>>
          IN /\ inHeader => e.columnLabel = rawTableGrid[1][e.columnIndex + 1]
             /\ ~inHeader => e.columnLabel = <<"Column ", ToString(e.columnIndex)>>

\* entries of two data rows, one under a non-empty header cell and one
\* under an empty or missing one
C13_Witness ==
  /\ normalizerPc = "done"
  /\ \E i, j \in 1..Len(normalizedRows) :
        /\ normalizedRows[i].rowIndex < normalizedRows[j].rowIndex
        /\ normalizedRows[i].columnLabel = <<"(", "7", ")">>
        /\ normalizedRows[j].columnLabel = <<"Column ", "2">>

\* the window size and the step of the call
C14_Size == IF chunkOptions.chunkSize = 0 THEN 500 ELSE chunkOptions.chunkSize
C14_Step == C14_Size - (IF chunkOptions.overlap = 0 THEN 100 ELSE chunkOptions.overlap)

\* the windows of a page: window k starts at k * step, and is reached when
\* no window before it reached the end of the page
C14_Windows(page) ==
  {k \in 0..Len(page.text) :
     /\ k * C14_Step < Len(page.text)
     /\ \A j \in 0..(k - 1) : j * C14_Step + C14_Size < Len(page.text)}

\* the text of window k of a page, trimmed
C14_WindowText(page, k) ==
  LET from == k * C14_Step
      to == IF from + C14_Size < Len(page.text) THEN from + C14_Size
            ELSE Len(page.text)
      first == CHOOSE i \in (from + 1)..(to + 1) :
                 /\ \A j \in (from + 1)..(i - 1) : page.text[j] = " "
                 /\ i = to + 1 \/ page.text[i] # " "
      last == CHOOSE i \in from..to :
                 /\ \A j \in (i + 1)..to : page.text[j] = " "
                 /\ i = from \/ page.text[i] # " "
  IN [i \in 1..(last - first + 1) |-> page.text[first + i - 1]]

\* every emitted chunk is a window of the page whose number it carries,
\* and holds no character of another page
C14_ChunksAreWindows ==
  \A i \in 1..Len(chunks) :
     \E n \in 1..Len(chunkPages) :
        /\ chunkPages[n].page = chunks[i].page
        /\ \E k \in C14_Windows(chunkPages[n]) :
              chunks[i].text = C14_WindowText(chunkPages[n], k)
        /\ \A j \in 1..Len(chunks[i].text) :
              chunks[i].text[j] \in {ToString(chunks[i].page), " "}

\* the chunks of page n
C14_ChunksOf(n) == {i \in 1..Len(chunks) : chunks[i].page = chunkPages[n].page}

\* a page shorter than the window gives one chunk when its text has at
\* least least characters, and none otherwise
C14_ShortPages(least) ==
  \A n \in 1..Len(chunkPages) :
     Len(chunkPages[n].text) < C14_Size =>
        Cardinality(C14_ChunksOf(n))
          = (IF Len(chunkPages[n].text) >= least THEN 1 ELSE 0)

\* C14: every chunk chunkText returns is the trimmed text of one window
\* [k * step, min(k * step + size, page length)) of exactly one page and
\* carries that page's number; a page shorter than the window gives one
\* chunk if it meets the minimum length of 50, else none.
C14_ChunksAreWindowsOfOnePage ==
  chunkerPc = "returned" => C14_ChunksAreWindows /\ C14_ShortPages(50)

\* the window k of page n was emitted
C15_Emitted(n, k) ==
  \E i \in C14_ChunksOf(n) :
     chunks[i].startChar = chunkPages[n].startIndex + k * C14_Step

\* C15: chunkText discards a window exactly when its trimmed length is
\* below 50 (50 is emitted, 49 is not), and the chunkIndex values of the
\* emitted chunks increase strictly in output order across all pages.
C15_DiscardsBelowMinimum ==
  chunkerPc = "returned" =>
     /\ \A n \in 1..Len(chunkPages) : \A k \in C14_Windows(chunkPages[n]) :
           C15_Emitted(n, k) <=> Len(C14_WindowText(chunkPages[n], k)) >= 50
     /\ \A i, j \in 1..Len(chunks) :
           i < j => chunks[i].chunkIndex < chunks[j].chunkIndex

\* the ranking step of a pipeline returned its ranked candidates
C16_Ranked ==
  /\ pc \in {"factual:documents", "financial:tables", "done"}
  /\ faults = {}

C16_Candidates == IF questionType = "factual" THEN text_chunks ELSE table_rows
C16_K == IF questionType = "factual" THEN 5 ELSE 10
C16_Usable == {i \in 1..Len(C16_Candidates) : C16_Candidates[i].embedding # <<>>}

\* the scalar product of two vectors of the length of the first
RECURSIVE C16_Sum(_, _, _)
C16_Sum(a, b, i) == IF i > Len(a) THEN 0 ELSE a[i] * b[i] + C16_Sum(a, b, i + 1)

\* the similarity of every candidate to the question as a pair <<n, d>>
\* standing for sign(dot) * dot^2 / (|q|^2 * |e|^2); a zero vector or a
\* missing embedding counts as 0
C16_Keys ==
  [i \in 1..Len(C16_Candidates) |->
     LET e == C16_Candidates[i].embedding
         dot == IF e = <<>> THEN 0 ELSE C16_Sum(questionEmbedding, e, 1)
         d == IF e = <<>> THEN 0
              ELSE C16_Sum(questionEmbedding, questionEmbedding, 1)
                     * C16_Sum(e, e, 1)
     IN IF d = 0 THEN <<0, 1>>
        ELSE <<IF dot < 0 THEN 0 - dot * dot ELSE dot * dot, d>>]

\* candidate i is strictly more similar to the question than candidate j
C16_MoreSimilar(keys, i, j) == keys[i][1] * keys[j][2] > keys[j][1] * keys[i][2]

\* candidate i comes before candidate j in the ranking
C16_Before(keys, i, j) ==
  C16_MoreSimilar(keys, i, j) \/ (~C16_MoreSimilar(keys, j, i) /\ i < j)

\* C16: the ranked evidence is exactly the first K (5 chunks, 10 rows) of
\* the fetched candidates with an embedding, by non-increasing similarity,
\* candidates of equal similarity in the order of the store.
C16_RankedIsStableTopK ==
  C16_Ranked =>
     /\ Len(ranked) = Min(C16_K, Cardinality(C16_Usable))
     /\ LET keys == C16_Keys
            usable == C16_Usable
            at(k) == ranked[k].rec.id     \* ids are positions in the store
            taken == {at(k) : k \in 1..Len(ranked)}
        IN /\ \A k \in 1..Len(ranked) :
                /\ at(k) \in usable
                /\ ranked[k].rec = C16_Candidates[at(k)]
                /\ k < Len(ranked) => C16_Before(keys, at(k), at(k + 1))
           /\ \A j \in usable \ taken :
                C16_Before(keys, at(Len(ranked)), j)

\* more than K candidates with an embedding, two of them equally similar
\* and two not
C16_Witness ==
  /\ C16_Ranked
  /\ Cardinality(C16_Usable) > C16_K
  /\ Len(ranked) = C16_K
  /\ \E i, j \in C16_Usable :
        /\ i < j
        /\ ~C16_MoreSimilar(C16_Keys, i, j)
        /\ ~C16_MoreSimilar(C16_Keys, j, i)
  /\ \E i, j \in C16_Usable : i < j /\ C16_MoreSimilar(C16_Keys, j, i)

\* C17: the similarity computed for a candidate is defined when either
\* vector is all zeros: it is 0, never NaN.
C17_SimilarityIsNeverNaN ==
  C16_Ranked =>
     \A k \in 1..Len(ranked) :
        ranked[k].similarity.mag1 * ranked[k].similarity.mag2 # 0

\* ingestDocument call j has returned
IngestReturned(j) == jobs[j].pc = "returned"

\* C18: a call of ingestDocument for file name f that starts when a Document
\* record with file name f exists creates no Document record, and returns
\* success = true with the id of a Document record of that file name.
C18_ExistingFileIsNotIngestedAgain ==
  \A j \in JobIds :
     jobs[j].existing # {} =>
        /\ jobs[j].documentId = NoValue
        /\ IngestReturned(j) =>
              /\ jobs[j].result.success
              /\ jobs[j].result.documentId \in DocumentsNamed(jobs[j].fileName)

\* the messages of the document-level faults: the Document insert fails,
\* text extraction throws, table extraction throws
DocumentFaults ==
  {"Failed to create document", "fetch failed", "Failed to extract text",
   "Failed to extract tables"}

\* C19: a call of ingestDocument in which a document-level fault occurred
\* returns success = false with the error message, and when it has returned
\* the ingestion log holds an entry with status "failed" for it.
C19_FaultGivesFailedResultAndLog ==
  \A j \in JobIds :
     /\ jobs[j].pc = "catch" => jobs[j].error \in DocumentFaults
     /\ IngestReturned(j) /\ jobs[j].result.error \in DocumentFaults =>
           /\ ~jobs[j].result.success
           /\ \E k \in 1..Len(ingestion_logs) :
                 /\ ingestion_logs[k].status = "failed"
                 /\ ingestion_logs[k].message = jobs[j].result.error

\* C20: a total table-extraction failure is fatal for the ingestion job: a
\* call whose table extractor reported success = false or gave no result
\* does not return success = true, and no "completed" log is written for
\* its document.
C20_ExtractionFailureIsFatal ==
  \A j \in JobIds :
     jobs[j].scriptOutcome \in {"unsuccessful", "no results"} =>
        /\ IngestReturned(j) => ~jobs[j].result.success
        /\ \A k \in 1..Len(ingestion_logs) :
              ~(/\ ingestion_logs[k].status = "completed"
                /\ ingestion_logs[k].document_id = jobs[j].documentId)

\* the records stored by the insert of the list records, if it stored any
C21_StoredBy(before, after, records) ==
  after = before \/
  /\ Len(after) = Len(before) + Len(records)
  /\ \A i \in 1..Len(before) : after[i] = before[i]
  /\ \A i \in 1..Len(records) :
        /\ after[Len(before) + i].embedding = records[i].embedding
        /\ after[Len(before) + i].text = records[i].text

\* the step of call j is a turn of a loop in which the embedding call failed
C21_EmbeddingFails(j) ==
  /\ jobs[j].pc \in {"chunk", "row"}
  /\ jobs'[j] # jobs[j]
  /\ ingestFaults' # ingestFaults

\* C21: a failed embedding call for a chunk or a table row does not abort the
\* ingestion: the item is put on the list to insert with a null embedding,
\* the items after it are processed, the insert stores the list with its
\* null embeddings, and no item with a null embedding is among the ranked
\* candidates of either pipeline.
C21_FailedEmbeddingKeepsItem ==
  [][/\ \A j \in DOMAIN jobs :
          /\ C21_EmbeddingFails(j) =>
                /\ jobs'[j].pc \in {"chunk", "insert chunks", "row", "insert rows"}
                /\ jobs'[j].documentId = jobs[j].documentId
                /\ jobs[j].pc = "chunk" =>
                      /\ Len(jobs'[j].chunksToInsert) =
                            Len(jobs[j].chunksToInsert) + 1
                      /\ LET record == jobs'[j].chunksToInsert[
                                          Len(jobs'[j].chunksToInsert)]
                         IN /\ record.embedding = NoEmbedding
                            /\ record.text = jobs[j].chunks[jobs[j].chunkPos].text
                /\ jobs[j].pc = "row" =>
                      /\ Len(jobs'[j].rowsToInsert) =
                            Len(jobs[j].rowsToInsert) + 1
                      /\ jobs'[j].rowsToInsert[Len(jobs'[j].rowsToInsert)]
                            .embedding = NoEmbedding
          /\ jobs'[j].pc = "insert chunks" /\ jobs'[j].chunkPos > Len(jobs'[j].chunks) =>
                /\ Len(jobs'[j].chunksToInsert) = Len(jobs'[j].chunks)
                /\ \A i \in 1..Len(jobs'[j].chunks) :
                      jobs'[j].chunksToInsert[i].chunk_index =
                         jobs'[j].chunks[i].chunkIndex
          /\ jobs'[j].pc = "insert rows" =>
                Len(jobs'[j].rowsToInsert) =
                   Len(jobs'[j].extractedTables[jobs'[j].tablePos].rawTableGrid)
          /\ jobs[j].pc = "insert chunks" /\ jobs'[j] # jobs[j] =>
                C21_StoredBy(text_chunks, text_chunks', jobs[j].chunksToInsert)
          /\ jobs[j].pc = "insert rows" /\ jobs'[j] # jobs[j] =>
                /\ Len(table_rows') \in
                      {Len(table_rows),
                       Len(table_rows) + Len(jobs[j].rowsToInsert)}
                /\ \A i \in 1..(Len(table_rows') - Len(table_rows)) :
                      table_rows'[Len(table_rows) + i].embedding =
                         jobs[j].rowsToInsert[i].embedding
     /\ \A k \in 1..Len(ranked') : ranked'[k].rec.embedding # NoEmbedding]_vars

\* the chunks of a document are stored, one with a null embedding and one
\* with an embedding, and the factual pipeline has ranked the one with it
C21_Witness ==
  /\ questionType = "factual"
  /\ \E k \in 1..Len(ranked), i \in 1..Len(text_chunks) :
        /\ text_chunks[i].embedding = NoEmbedding
        /\ text_chunks[i].document_id = ranked[k].rec.document_id
        /\ \E n \in 1..Len(text_chunks) : text_chunks[n] = ranked[k].rec

\* C22: every chat request eventually returns a response, also when an
\* external embedding or generation call never answers.
C22_EveryRequestReturns == (pc = "classify") ~> Done

\* the fixed priority order of the table types
C23_Priority == <<"RATIOS", "NDCF", "DISTRIBUTION", "P&L", "BALANCE_SHEET">>

\* the trigger keywords of a type as the keyword table lists them
C23_ListedKeywords(type) ==
  CASE type = "RATIOS" -> {"ratio", "coverage", "debt service", "icr"}
    [] type = "NDCF" -> {"ndcf", "net distributable cash flow"}
    [] type = "DISTRIBUTION" -> {"distribution", "per unit", "dpu"}
    [] type = "P&L" -> {"profit", "loss", "revenue", "income", "expense"}
    [] type = "BALANCE_SHEET" -> {"assets", "liabilities", "equity"}

\* the same with the two keywords that name a type itself
C23_AllKeywords(type) ==
  CASE type = "P&L" -> C23_ListedKeywords(type) \cup {"p&l"}
    [] type = "BALANCE_SHEET" -> C23_ListedKeywords(type) \cup {"balance sheet"}
    [] OTHER -> C23_ListedKeywords(type)

\* a keyword occurs in the question, whatever its case
C23_Occurs(kw) == Includes(ToLowerCase(question), kw)

\* the types one of whose listed keywords occurs, in priority order
C23_ListedTypes ==
  LET hit(type) == \E kw \in C23_ListedKeywords(type) : C23_Occurs(kw)
  IN SelectSeq(C23_Priority, hit)

C23_AllTypes ==
  LET hit(type) == \E kw \in C23_AllKeywords(type) : C23_Occurs(kw)
  IN SelectSeq(C23_Priority, hit)

C24_PastChunks(j) ==
  jobs[j].pc \in {"tables", "table", "row", "insert rows", "completed"}

\* the stored rows of table t, as positions in table_rows
C24_RowsOf(t) == {i \in 1..Len(table_rows) : table_rows[i].table_id = t}

C25_SuccessMeansIngested ==
  \A j \in JobIds :
     IngestReturned(j) /\ jobs[j].result.success =>
        \E k \in 1..Len(ingestion_logs) :
           /\ ingestion_logs[k].status = "completed"
           /\ ingestion_logs[k].document_id = jobs[j].result.documentId


\* C26: every response of answerFinancialQuestion whose confidence is not
\* not_found carries at least one value and at least one citation, and the
\* generation call of the financial pipeline is never made with an empty
\* evidence block.
C26_AnswerIsBackedByARow ==
  /\ pc = "financial:generation" => prompt # <<>>
  /\ Done /\ questionType = "financial" /\ response.confidence # "not_found" =>
       response.evidence # <<>> /\ response.citations # <<>>

\* the ranked rows whose table belongs to a requested document
C27_RequestedRows ==
  {i \in 1..Len(ranked) :
     StoredTable(ranked[i].rec.table_id).document_id \in C9_Requested}

\* C27: with a non-empty documentIds filter and the table lookup answered,
\* if one of the ranked rows belongs to a requested document then the rows
\* left by the two filters, which are the evidence, are not empty.
C27_RequestedRowsSurviveTheFilters ==
  /\ pc \in {"financial:documents", "financial:generation"}
  /\ documentIds # NoDocumentIds
  /\ "tables" \notin faults
  /\ C27_RequestedRows # {}
  => filteredRows # <<>>


\* C28: chunkText terminates.  The window loop of a page is deterministic
\* and ends only by reaching the end of the page text, so it ends after
\* finitely many windows exactly when every window that does not end the
\* page starts further right than the one before it.
C28_EveryWindowMovesForward ==
  [][chunkerPc = "loop" /\ pageIdx <= Len(chunkPages) /\ pageIdx' = pageIdx
       => startPos' > startPos]_vars


\* the call that created Document record d has not returned yet
C29_InProgress(d) ==
  \E j \in JobIds : jobs[j].documentId = d /\ ~IngestReturned(j)

\* the statuses of the log entries that reference Document record d, in the
\* order they were written
C29_StatusesOf(d) ==
  LET refers(entry) == entry.document_id = d
      entries == SelectSeq(ingestion_logs, refers)
  IN [k \in 1..Len(entries) |-> entries[k].status]

\* C29: once the call that created a Document record d has returned, the
\* log entries that reference d are a "processing" entry followed by
\* exactly one terminal entry, "completed" or "failed".
C29_LogsEndWithOneTerminalEntry ==
  \A doc \in documents :
     ~C29_InProgress(doc.id) =>
        \E terminal \in {"completed", "failed"} :
           C29_StatusesOf(doc.id) = <<"processing", terminal>>


\* the ids of the tables whose metadata is stored
C30_StoredTableIds == {t.table_id : t \in tables}

\* call j is building or inserting the rows of a table
C30_OnRows(j) == jobs[j].pc \in {"row", "insert rows"}

\* every row built, submitted or stored names a table whose metadata is
\* stored; rows are built, and embeddings requested for them, for such a
\* table only
C30_RowsHaveTheirTable ==
  /\ \A k \in 1..Len(table_rows) : table_rows[k].table_id \in C30_StoredTableIds
  /\ \A j \in JobIds :
        /\ \A k \in 1..Len(jobs[j].rowsToInsert) :
              jobs[j].rowsToInsert[k].table_id \in C30_StoredTableIds
        /\ C30_OnRows(j) =>
              jobs[j].extractedTables[jobs[j].tablePos].tableId
                 \in C30_StoredTableIds

\* the metadata insert of the current table of call j reports an error
C30_InsertFails(j) ==
  /\ jobs[j].pc = "table"
  /\ jobs'[j] # jobs[j]
  /\ jobs'[j].pc # "catch"
  /\ tables' = tables

\* C30: the rows ingestDocument builds and submits belong to tables whose
\* metadata insert succeeded.  When the metadata insert of a table reports
\* an error, no row of it is built (no embedding is requested) or inserted,
\* the stored rows are left as they are, and the loop goes on with the next
\* table, or to the "completed" log after the last one.
C30_FailedTableIsSkipped ==
  [][/\ C30_RowsHaveTheirTable'
     /\ \A j \in JobIds :
           C30_InsertFails(j) =>
              /\ table_rows' = table_rows
              /\ jobs'[j].rowsToInsert = <<>>
              /\ jobs'[j].tablePos = jobs[j].tablePos + 1
              /\ jobs'[j].pc = IF jobs[j].tablePos < Len(jobs[j].extractedTables)
                               THEN "table" ELSE "completed"]_vars

\* b.pdf is ingested, the metadata insert of its first table has failed and
\* its second table is stored with its row
C30_Witness ==
  \E j \in JobIds :
     /\ jobs[j].pc = "completed"
     /\ jobs[j].fileName = "b.pdf"
     /\ TableIdOf(jobs[j].documentId, 3, 0) \notin C30_StoredTableIds
     /\ TableIdOf(jobs[j].documentId, 3, 1) \in C30_StoredTableIds
     /\ C24_RowsOf(TableIdOf(jobs[j].documentId, 3, 0)) = {}
     /\ C24_RowsOf(TableIdOf(jobs[j].documentId, 3, 1)) # {}

=============================================================================
